---------------------------- MODULE Spec2Model ----------------------------
(***************************************************************************)
(* A model of the stackathon interpreter: the tokenizer (src/src/lexer.rs) *)
(* as a machine that handles one character class per step, with one frame  *)
(* per (recursive) call of tokenize, and the execution engine              *)
(* (src/src/vm.rs) as a machine that executes one token per step, with one *)
(* frame per (recursive) call of execute; and the byte codec of values and *)
(* tokens (src/src/types.rs, src/src/lexer.rs) as a machine that encodes a *)
(* value and decodes a buffer.                                             *)
(*                                                                         *)
(* Text is a sequence of one-character strings.  A Float is the exact      *)
(* rational n/d in lowest terms (d > 0), or d = 0 for +inf (n = 1),        *)
(* -inf (n = -1) and NaN (n = 0).                                          *)
(***************************************************************************)
EXTENDS Integers, Sequences, FiniteSets, TLC

VARIABLES
    entry,      \* which entry point was called: "run_string", "execute", "to_bytes",
                \* "compile_string"
    source,     \* the source text given to run_string
    lexer,      \* the active calls of tokenize, outermost first
    functions,  \* the function table: name -> body (a sequence of tokens)
    tokens,     \* the tokens returned by the top-level tokenize
    calls,      \* the active calls of execute, outermost first
    stack,      \* Stack.data
    output,     \* the values PRINT has written, in order
    status,     \* "tokenize", "execute", "ok", "tokenizer_error", "runtime_error", "panic",
                \* "stack_overflow", "compiled"
    error,      \* the TokenizerError or RuntimeError returned, or NoError
    value,      \* the Value given to to_bytes
    buffer,     \* the bytes given to from_bytes
    decoded,    \* what from_bytes returned
    library     \* the contents written to the library file, one for each call of
                \* compile_string

vars ==
    <<entry, source, lexer, functions, tokens, calls, stack, output, status, error,
      value, buffer, decoded, library>>

-----------------------------------------------------------------------------
(* Characters *)

DigitChars == <<"0", "1", "2", "3", "4", "5", "6", "7", "8", "9">>

Digits == {DigitChars[i] : i \in 1..10}

Letters ==
    {"a", "b", "c", "d", "e", "f", "g", "h", "i", "j", "k", "l", "m",
     "n", "o", "p", "q", "r", "s", "t", "u", "v", "w", "x", "y", "z",
     "A", "B", "C", "D", "E", "F", "G", "H", "I", "J", "K", "L", "M",
     "N", "O", "P", "Q", "R", "S", "T", "U", "V", "W", "X", "Y", "Z"}

\* The character '\0' that handle_block appends to a block's body.
NUL == "NUL"

is_ascii_digit(c) == c \in Digits

is_ascii_alphabetic(c) == c \in Letters

is_ascii_alphanumeric(c) == c \in Letters \cup Digits

\* char::is_whitespace on the characters of the model ('\0' is not whitespace).
is_whitespace(c) == c \in {" ", "\t", "\n", "\r"}

DigitVal(c) == (CHOOSE i \in 1..10 : DigitChars[i] = c) - 1

\* The text of a string constant, as the sequence of its characters.
Chars(str) == [i \in 1..Len(str) |-> SubSeq(str, i, i)]

-----------------------------------------------------------------------------
(* Values, tokens, errors *)

I32Max == 2147483647

I32Min == -I32Max - 1

Integer(i) == [k |-> "Integer", i |-> i]

Float(n, d) == [k |-> "Float", n |-> n, d |-> d]

Boolean(b) == [k |-> "Boolean", b |-> b]

String(s) == [k |-> "String", s |-> s]

Block(t) == [k |-> "Block", body |-> t]

Function(name) == [k |-> "Function", fn |-> name]

Tag(name) == [k |-> "Tag", tag |-> name]

Literal(v) == [t |-> "Literal", lit |-> v]

Op(o) == [t |-> "Op", op |-> o]

Keyword(kw) == [t |-> "Keyword", kw |-> kw]

TokenPosition(row, col) == [row |-> row, col |-> col]

Token_new(kind, row, col) == [kind |-> kind, pos |-> TokenPosition(row, col)]

NoError == [type |-> "None"]

InvalidNumberFormat(pos) == [type |-> "InvalidNumberFormat", pos |-> pos]

UnexpectedSymbol(pos, c) == [type |-> "UnexpectedSymbol", pos |-> pos, ch |-> c]

UnknownIdentifier(pos, name) == [type |-> "UnknownIdentifier", pos |-> pos, name |-> name]

BlockHadNoEnd(pos) == [type |-> "BlockHadNoEnd", pos |-> pos]

StringHadNoEnd(pos) == [type |-> "StringHadNoEnd", pos |-> pos]

FunctionHasMultipleDefinitions(pos, name) ==
    [type |-> "FunctionHasMultipleDefinitions", pos |-> pos, name |-> name]

OperatorInvalidValues(pos, c) == [type |-> "OperatorInvalidValues", pos |-> pos, ch |-> c]

KeywordInvalidValues(pos, kw) == [type |-> "KeywordInvalidValues", pos |-> pos, kw |-> kw]

\* position.col += n
ColPlus(position, n) == [position EXCEPT !.col = @ + n]

-----------------------------------------------------------------------------
(* Numerals: the string-to-number conversions used by tokenize *)

RECURSIVE Gcd(_, _)
Gcd(a, b) == IF b = 0 THEN a ELSE Gcd(b, a % b)

Abs(x) == IF x < 0 THEN -x ELSE x

\* The rational n/d (d > 0) in lowest terms.
Ratio(n, d) == LET g == Gcd(Abs(n), d) IN Float(n \div g, d \div g)

\* The digits of s read as a natural number, or -1 when it exceeds limit.
RECURSIVE DigitsValue(_, _, _)
DigitsValue(s, acc, limit) ==
    IF s = <<>> THEN acc
    ELSE LET dv == DigitVal(Head(s)) IN
         IF acc > (limit - dv) \div 10 THEN -1
         ELSE DigitsValue(Tail(s), acc * 10 + dv, limit)

\* number_string.parse::<i32>(): an optional '-' and at least one digit.
parse_i32(number_string) ==
    LET neg  == number_string # <<>> /\ Head(number_string) = "-"
        ds   == IF neg THEN Tail(number_string) ELSE number_string
        mag  == DigitsValue(ds, 0, I32Max)
    IN  IF ds = <<>> THEN [ok |-> FALSE]
        ELSE IF mag >= 0 THEN [ok |-> TRUE, value |-> Integer(IF neg THEN -mag ELSE mag)]
        ELSE IF neg /\ ds = <<"2", "1", "4", "7", "4", "8", "3", "6", "4", "8">>
             THEN [ok |-> TRUE, value |-> Integer(I32Min)]
        ELSE [ok |-> FALSE]

RECURSIVE Pow10(_)
Pow10(n) == IF n = 0 THEN 1 ELSE 10 * Pow10(n - 1)

\* number_string.parse::<f32>() of an optional '-', digits and one '.':
\* an error exactly when there is no digit.
parse_f32(number_string) ==
    LET neg  == number_string # <<>> /\ Head(number_string) = "-"
        body == IF neg THEN Tail(number_string) ELSE number_string
        ds   == SelectSeq(body, is_ascii_digit)
        dot  == CHOOSE i \in 1..Len(body) : body[i] = "."
        mag  == DigitsValue(ds, 0, I32Max)
    IN  IF ds = <<>> THEN [ok |-> FALSE]
        ELSE [ok |-> TRUE,
              value |-> Ratio(IF neg THEN -mag ELSE mag, Pow10(Len(body) - dot))]

-----------------------------------------------------------------------------
(* The scanning loops of tokenize and handle_block.  Each takes the        *)
(* tokenizer's position and the unread text (code) and returns them as the *)
(* loop leaves them, with err the TokenizerError it returns, or NoError.   *)

\* The loop that accumulates a numeral after its first character.
RECURSIVE number_loop(_, _, _, _)
number_loop(number_string, saw_dot, position, code) ==
    IF code = <<>>
    THEN [err |-> NoError, number_string |-> number_string, saw_dot |-> saw_dot,
          position |-> position, code |-> code]
    ELSE LET next_character == Head(code) IN
         IF is_ascii_digit(next_character)
         THEN number_loop(Append(number_string, next_character), saw_dot,
                          ColPlus(position, 1), Tail(code))
         ELSE IF next_character = "."
         THEN IF saw_dot
              THEN [err |-> InvalidNumberFormat(position), number_string |-> number_string,
                    saw_dot |-> saw_dot, position |-> position, code |-> Tail(code)]
              ELSE number_loop(Append(number_string, next_character), TRUE,
                               ColPlus(position, 1), Tail(code))
         ELSE IF is_whitespace(next_character)
         THEN [err |-> NoError, number_string |-> number_string, saw_dot |-> saw_dot,
               position |-> position, code |-> code]
         ELSE [err |-> InvalidNumberFormat(position), number_string |-> number_string,
               saw_dot |-> saw_dot, position |-> position, code |-> Tail(code)]

\* The numeral that starts with character: the loop, then the parse.
scan_number(character, position, code) ==
    LET r == number_loop(<<character>>, character = ".", ColPlus(position, 1), code)
        parsed == IF r.saw_dot THEN parse_f32(r.number_string)
                  ELSE parse_i32(r.number_string)
    IN  IF r.err # NoError THEN [err |-> r.err, position |-> r.position, code |-> r.code]
        ELSE IF ~parsed.ok
        THEN [err |-> InvalidNumberFormat(r.position), position |-> r.position,
              code |-> r.code]
        ELSE [err |-> NoError, position |-> r.position, code |-> r.code,
              value |-> parsed.value]

\* What an escape \c inside a string literal appends.
string_escape(c) ==
    CASE c = "n"  -> <<"\n">>
      [] c = "t"  -> <<"\t">>
      [] c = "\\" -> <<"\\">>
      [] c = "\"" -> <<"\"">>
      [] c = "r"  -> <<"\r">>
      [] OTHER    -> <<"\\", c>>

\* The loop that reads a string literal after its opening quote.
RECURSIVE string_loop(_, _, _, _)
string_loop(string, start_pos, position, code) ==
    IF code = <<>>
    THEN [err |-> StringHadNoEnd(start_pos), position |-> position, code |-> code]
    ELSE LET next_character == Head(code) IN
         IF next_character = "\""
         THEN IF Len(code) > 1 /\ ~is_whitespace(code[2])
              THEN [err |-> UnexpectedSymbol(ColPlus(position, 2), code[2]),
                    position |-> ColPlus(position, 2), code |-> Tail(code)]
              ELSE [err |-> NoError, position |-> ColPlus(position, 1),
                    code |-> Tail(code), string |-> string]
         ELSE IF next_character = "\\"
         THEN IF Len(code) > 1
              THEN string_loop(string \o string_escape(code[2]), start_pos,
                               ColPlus(position, 2), Tail(Tail(code)))
              ELSE string_loop(Append(string, "\\"), start_pos,
                               ColPlus(position, 2), <<>>)
         ELSE string_loop(Append(string, next_character), start_pos,
                          ColPlus(position, 1), Tail(code))

\* The comment loop: the characters up to and including the next ';'.
RECURSIVE comment_loop(_, _)
comment_loop(position, code) ==
    IF code = <<>> THEN [position |-> position, code |-> code]
    ELSE IF Head(code) = ";"
    THEN [position |-> ColPlus(position, 1), code |-> Tail(code)]
    ELSE comment_loop(ColPlus(position, 1), Tail(code))

\* The loop of handle_block that copies the body of a block.
RECURSIVE block_loop(_, _, _, _)
block_loop(inner_code, block_balancer, position, code) ==
    IF code = <<>>
    THEN [err |-> BlockHadNoEnd(position), position |-> position, code |-> code]
    ELSE
    LET character == Head(code)
        after == Tail(code)
    IN
    IF character = "}"
    THEN LET c == IF after = <<>> THEN " " ELSE Head(after)
             rest == IF after = <<>> THEN <<>> ELSE Tail(after)
         IN  IF ~is_whitespace(c)
             THEN [err |-> UnexpectedSymbol(ColPlus(position, 2), c),
                   position |-> ColPlus(position, 2), code |-> rest]
             ELSE IF block_balancer - 1 = 0
             THEN [err |-> NoError, position |-> ColPlus(position, 2), code |-> rest,
                   inner_code |-> Append(inner_code, NUL)]
             ELSE IF block_balancer - 1 < 0
             THEN [err |-> BlockHadNoEnd(ColPlus(position, 1)),
                   position |-> ColPlus(position, 1), code |-> rest]
             ELSE block_loop(Append(inner_code, character), block_balancer - 1,
                             ColPlus(position, 2), rest)
    ELSE IF character = "\\" /\ after # <<>>
    THEN LET c == Head(after) IN
         IF c \in {"{", "}"}
         THEN block_loop(Append(inner_code, c), block_balancer,
                         ColPlus(position, 2), Tail(after))
         ELSE block_loop(inner_code \o <<"\\", c>>, block_balancer,
                         ColPlus(position, 2), Tail(after))
    ELSE block_loop(Append(inner_code, character),
                    IF character = "{" THEN block_balancer + 1 ELSE block_balancer,
                    IF character = "\n"
                    THEN [row |-> position.row + 1, col |-> 0]
                    ELSE ColPlus(position, 1),
                    after)

\* handle_block up to its final call of tokenize: code is the text after the '{'.
handle_block(position, code) ==
    IF code # <<>> /\ ~is_whitespace(Head(code))
    THEN [err |-> UnexpectedSymbol(ColPlus(position, 1), Head(code)),
          position |-> ColPlus(position, 1), code |-> Tail(code)]
    ELSE LET starting_position == ColPlus(position, 1)
             r == block_loop(<<>>, 1, starting_position,
                             IF code = <<>> THEN <<>> ELSE Tail(code))
         IN  IF r.err # NoError THEN r
             ELSE [err |-> NoError, position |-> r.position, code |-> r.code,
                   inner_code |-> r.inner_code,
                   starting_position |-> starting_position]

\* The loop that reads the name of a function definition after the '@'.
RECURSIVE name_loop(_, _, _)
name_loop(function_name, position, code) ==
    IF code = <<>>
    THEN [err |-> NoError, function_name |-> function_name, position |-> position,
          code |-> code]
    ELSE LET next_char == Head(code) IN
         IF is_whitespace(next_char)
         THEN [err |-> NoError, function_name |-> function_name,
               position |-> position, code |-> Tail(code)]
         ELSE IF ~(is_ascii_alphanumeric(next_char) \/ next_char = "_")
         THEN [err |-> UnexpectedSymbol(position, next_char),
               function_name |-> function_name, position |-> position,
               code |-> Tail(code)]
         ELSE name_loop(Append(function_name, next_char), ColPlus(position, 1),
                        Tail(code))

\* The loop that reads an identifier after its first character.
RECURSIVE ident_loop(_, _, _)
ident_loop(ident, position, code) ==
    IF code = <<>>
    THEN [err |-> NoError, ident |-> ident, position |-> position, code |-> code]
    ELSE LET next_character == Head(code) IN
         IF is_whitespace(next_character)
         THEN [err |-> NoError, ident |-> ident, position |-> position, code |-> code]
         ELSE IF ~is_ascii_alphanumeric(next_character) /\ next_character # "_"
         THEN [err |-> UnexpectedSymbol(position, next_character), ident |-> ident,
               position |-> position, code |-> code]
         ELSE ident_loop(Append(ident, next_character), ColPlus(position, 1),
                         Tail(code))

\* get_keywords(): the static keyword table.
KEYWORDS ==
    (Chars("print") :> "PRINT") @@
    (Chars("true") :> "TRUE") @@
    (Chars("false") :> "FALSE") @@
    (Chars("exit") :> "EXIT") @@
    (Chars("loop") :> "LOOP") @@
    (Chars("dup") :> "DUPLICATE") @@
    (Chars("gate") :> "GATE") @@
    (Chars("drop") :> "DROP") @@
    (Chars("type") :> "TYPE") @@
    (Chars("swap") :> "SWAP") @@
    (Chars("depth") :> "DEPTH") @@
    (Chars("rot") :> "ROT") @@
    (Chars("nrot") :> "NROT") @@
    (Chars("over") :> "OVER") @@
    (Chars("tuck") :> "TUCK") @@
    (Chars("pick") :> "PICK") @@
    (Chars("roll") :> "ROLL") @@
    (Chars("clear") :> "CLEAR")

-----------------------------------------------------------------------------
(* The value model of types.rs.  An arithmetic result is Some(v), None,    *)
(* Overflow(r): an integer operation whose result does not fit, which      *)
(* panics in a build with overflow checks and yields the result r of the   *)
(* wrapped operation in a build without, or Abort: a panic in every build. *)

Some(v) == [r |-> "Some", v |-> v]

None == [r |-> "None"]

Overflow(res) == [r |-> "Overflow", wrapped |-> res]

Abort == [r |-> "Abort"]

\* v as f32 (exact in the model).
as_f32(i) == Float(i, 1)

IsNaN(f) == f.d = 0 /\ f.n = 0

IsInf(f) == f.d = 0 /\ f.n # 0

Sign(x) == IF x > 0 THEN 1 ELSE IF x < 0 THEN -1 ELSE 0

\* f32 negation, addition, multiplication and division.
f32_neg(f) == Float(-f.n, f.d)

f32_add(a, b) ==
    IF IsNaN(a) \/ IsNaN(b) THEN Float(0, 0)
    ELSE IF IsInf(a) /\ IsInf(b) THEN (IF a.n = b.n THEN a ELSE Float(0, 0))
    ELSE IF IsInf(a) THEN a
    ELSE IF IsInf(b) THEN b
    ELSE Ratio(a.n * b.d + b.n * a.d, a.d * b.d)

f32_mul(a, b) ==
    IF IsNaN(a) \/ IsNaN(b) THEN Float(0, 0)
    ELSE IF IsInf(a) \/ IsInf(b) THEN Float(Sign(a.n) * Sign(b.n), 0)
    ELSE Ratio(a.n * b.n, a.d * b.d)

f32_div(a, b) ==
    IF IsNaN(a) \/ IsNaN(b) THEN Float(0, 0)
    ELSE IF IsInf(a) THEN (IF IsInf(b) THEN Float(0, 0)
                           ELSE Float(a.n * (IF b.n < 0 THEN -1 ELSE 1), 0))
    ELSE IF IsInf(b) THEN Float(0, 1)
    ELSE IF b.n = 0 THEN Float(Sign(a.n), 0)
    ELSE Ratio(a.n * b.d * Sign(b.n), a.d * Abs(b.n))

\* The comparison of two f32: "Less", "Equal", "Greater", or "None" for a NaN.
f32_partial_cmp(a, b) ==
    IF IsNaN(a) \/ IsNaN(b) THEN "None"
    ELSE IF IsInf(a) \/ IsInf(b)
    THEN LET x == IF IsInf(a) THEN a.n ELSE 0
             y == IF IsInf(b) THEN b.n ELSE 0
         IN  IF x < y THEN "Less" ELSE IF x > y THEN "Greater" ELSE "Equal"
    ELSE IF a.n * b.d < b.n * a.d THEN "Less"
    ELSE IF a.n * b.d > b.n * a.d THEN "Greater"
    ELSE "Equal"

\* v1 + v2 on i32, without leaving the integers of the checker.
i32_add(v1, v2) ==
    IF v2 > 0 /\ v1 > I32Max - v2
    THEN Overflow(Some(Integer((v1 - I32Max - 1) + (v2 - I32Max - 1))))
    ELSE IF v2 < 0 /\ v1 < I32Min - v2
    THEN Overflow(Some(Integer((v1 + I32Max + 1) + (v2 + I32Max + 1))))
    ELSE Some(Integer(v1 + v2))

\* v1 - v2 on i32.
i32_sub(v1, v2) ==
    IF v2 = I32Min
    THEN (IF v1 >= 0 THEN Overflow(Some(Integer(v1 - I32Max - 1)))
          ELSE Some(Integer((v1 + I32Max) + 1)))
    ELSE i32_add(v1, -v2)

\* impl Add for Value
add(self, rhs) ==
    CASE self.k = "Float" /\ rhs.k = "Float" -> Some(f32_add(self, rhs))
      [] self.k = "Float" /\ rhs.k = "Integer" -> Some(f32_add(self, as_f32(rhs.i)))
      [] self.k = "Integer" /\ rhs.k = "Float" -> Some(f32_add(as_f32(self.i), rhs))
      [] self.k = "Integer" /\ rhs.k = "Integer" -> i32_add(self.i, rhs.i)
      [] self.k = "String" /\ rhs.k = "String" -> Some(String(self.s \o rhs.s))
      [] OTHER -> None

\* impl Sub for Value
sub(self, rhs) ==
    CASE self.k = "Float" /\ rhs.k = "Float" -> Some(f32_add(self, f32_neg(rhs)))
      [] self.k = "Float" /\ rhs.k = "Integer" -> Some(f32_add(self, f32_neg(as_f32(rhs.i))))
      [] self.k = "Integer" /\ rhs.k = "Float" -> Some(f32_add(as_f32(self.i), f32_neg(rhs)))
      [] self.k = "Integer" /\ rhs.k = "Integer" -> i32_sub(self.i, rhs.i)
      [] OTHER -> None

\* The value of an i32 result, wrapped when it does not fit.
Wrapped(res) == IF res.r = "Overflow" THEN res.wrapped.v.i ELSE res.v.i

\* v1.wrapping_mul(n) for n >= 0, by doubling.
RECURSIVE wrapping_mul(_, _)
wrapping_mul(v1, n) ==
    IF n = 0 THEN 0
    ELSE LET half == wrapping_mul(v1, n \div 2)
             twice == Wrapped(i32_add(half, half))
         IN  IF n % 2 = 1 THEN Wrapped(i32_add(twice, v1)) ELSE twice

\* Whether the product of v1 and v2 (neither 0 nor I32Min) fits an i32.
i32_mul_fits(v1, v2) ==
    LET a == Abs(v1)
        b == Abs(v2)
    IN  IF Sign(v1) = Sign(v2) THEN a <= I32Max \div b
        ELSE IF b = 1 THEN TRUE
        ELSE a <= (I32Max \div b) + (IF I32Max % b = b - 1 THEN 1 ELSE 0)

\* v1 * v2 on i32.
i32_mul(v1, v2) ==
    IF v1 = 0 \/ v2 = 0 THEN Some(Integer(0))
    ELSE IF v1 = 1 THEN Some(Integer(v2))
    ELSE IF v2 = 1 THEN Some(Integer(v1))
    ELSE IF v1 = I32Min
    THEN Overflow(Some(Integer(IF v2 % 2 = 0 THEN 0 ELSE I32Min)))
    ELSE IF v2 = I32Min
    THEN Overflow(Some(Integer(IF v1 % 2 = 0 THEN 0 ELSE I32Min)))
    ELSE IF i32_mul_fits(v1, v2) THEN Some(Integer(v1 * v2))
    ELSE IF v1 = I32Max \/ v2 = I32Max
    THEN LET v == IF v1 = I32Max THEN v2 ELSE v1 IN
         \* (2^31 - 1) * v wraps to 2^31 * v - v
         Overflow(Some(Integer(Wrapped(i32_sub(IF v % 2 = 0 THEN 0 ELSE I32Min, v)))))
    ELSE IF v2 > 0 THEN Overflow(Some(Integer(wrapping_mul(v1, v2))))
    ELSE Overflow(Some(Integer(wrapping_mul(-v1, -v2))))

\* str::repeat(n): n copies of s (none of them to write when s is empty).
RECURSIVE repeat(_, _)
repeat(s, n) == IF n = 0 \/ s = <<>> THEN <<>> ELSE s \o repeat(s, n - 1)

\* impl Mul for Value
mul(self, rhs) ==
    CASE self.k = "Float" /\ rhs.k = "Float" -> Some(f32_mul(self, rhs))
      [] self.k = "Float" /\ rhs.k = "Integer" -> Some(f32_mul(self, as_f32(rhs.i)))
      [] self.k = "Integer" /\ rhs.k = "Float" -> Some(f32_mul(as_f32(self.i), rhs))
      [] self.k = "Integer" /\ rhs.k = "Integer" -> i32_mul(self.i, rhs.i)
      [] self.k = "String" /\ rhs.k = "Integer" ->
            IF rhs.i >= 0 THEN Some(String(repeat(self.s, rhs.i)))
            ELSE IF self.s = <<>> THEN Some(String(<<>>))
            ELSE Abort
      [] OTHER -> None

\* impl Div for Value
div(self, rhs) ==
    CASE self.k = "Float" /\ rhs.k = "Float" -> Some(f32_div(self, rhs))
      [] self.k = "Float" /\ rhs.k = "Integer" -> Some(f32_div(self, as_f32(rhs.i)))
      [] self.k = "Integer" /\ rhs.k = "Float" -> Some(f32_div(as_f32(self.i), rhs))
      [] self.k = "Integer" /\ rhs.k = "Integer" ->
            Some(f32_div(as_f32(self.i), as_f32(rhs.i)))
      [] self.k = "String" /\ rhs.k = "Integer" ->
            IF rhs.i = 0 THEN Overflow(None)
            ELSE IF rhs.i >= 1 /\ rhs.i <= Len(self.s)
            THEN Some(String(<<self.s[rhs.i]>>))
            ELSE None
      [] OTHER -> None

\* impl Not for Value
not(self) == IF self.k = "Boolean" THEN Some(Boolean(~self.b)) ELSE None

\* impl PartialEq for Value
eq(self, other) ==
    CASE self.k = "Float" /\ other.k = "Float" -> f32_partial_cmp(self, other) = "Equal"
      [] self.k = "Float" /\ other.k = "Integer" ->
            f32_partial_cmp(self, as_f32(other.i)) = "Equal"
      [] self.k = "Integer" /\ other.k = "Float" ->
            f32_partial_cmp(as_f32(self.i), other) = "Equal"
      [] self.k = "Integer" /\ other.k = "Integer" -> self.i = other.i
      [] self.k = "Boolean" /\ other.k = "Boolean" -> self.b = other.b
      [] self.k = "String" /\ other.k = "String" -> self.s = other.s
      [] self.k = "Function" /\ other.k = "Function" -> self.fn = other.fn
      [] self.k = "Tag" /\ other.k = "Tag" -> self.tag = other.tag
      [] OTHER -> FALSE

\* The characters of the model in the order of their code points.
CodePoints ==
    <<NUL, "\t", "\n", "\r", " ", "!", "\"", "#", "$", "&", "*", "+", ",", "-", ".", "/",
      "0", "1", "2", "3", "4", "5", "6", "7", "8", "9", ";", "<", "=", ">", "@",
      "A", "B", "C", "D", "E", "F", "G", "H", "I", "J", "K", "L", "M",
      "N", "O", "P", "Q", "R", "S", "T", "U", "V", "W", "X", "Y", "Z", "\\", "_",
      "a", "b", "c", "d", "e", "f", "g", "h", "i", "j", "k", "l", "m",
      "n", "o", "p", "q", "r", "s", "t", "u", "v", "w", "x", "y", "z", "{", "|", "}">>

CodePoint(c) == CHOOSE i \in 1..Len(CodePoints) : CodePoints[i] = c

\* str::partial_cmp: the lexicographic order of two texts.
RECURSIVE str_cmp(_, _)
str_cmp(a, b) ==
    IF a = <<>> THEN (IF b = <<>> THEN "Equal" ELSE "Less")
    ELSE IF b = <<>> THEN "Greater"
    ELSE IF CodePoint(Head(a)) < CodePoint(Head(b)) THEN "Less"
    ELSE IF CodePoint(Head(a)) > CodePoint(Head(b)) THEN "Greater"
    ELSE str_cmp(Tail(a), Tail(b))

int_cmp(a, b) == IF a < b THEN "Less" ELSE IF a > b THEN "Greater" ELSE "Equal"

\* impl PartialOrd for Value: "Less", "Equal", "Greater" or "None".
partial_cmp(self, other) ==
    CASE self.k = "Float" /\ other.k = "Float" -> f32_partial_cmp(self, other)
      [] self.k = "Float" /\ other.k = "Integer" -> f32_partial_cmp(self, as_f32(other.i))
      [] self.k = "Integer" /\ other.k = "Float" -> f32_partial_cmp(as_f32(self.i), other)
      [] self.k = "Integer" /\ other.k = "Integer" -> int_cmp(self.i, other.i)
      [] self.k = "Boolean" /\ other.k = "Boolean" ->
            int_cmp(IF self.b THEN 1 ELSE 0, IF other.b THEN 1 ELSE 0)
      [] self.k = "String" /\ other.k = "String" -> str_cmp(self.s, other.s)
      [] OTHER -> "None"

\* The operators <, <=, > and >= that PartialOrd derives from partial_cmp.
lt(a, b) == partial_cmp(a, b) = "Less"

le(a, b) == partial_cmp(a, b) \in {"Less", "Equal"}

gt(a, b) == partial_cmp(a, b) = "Greater"

ge(a, b) == partial_cmp(a, b) \in {"Greater", "Equal"}

-----------------------------------------------------------------------------
(* The tokenizer.  A frame of lexer is one call of tokenize: the unread     *)
(* text, the position, the tokens pushed so far, and what the caller does   *)
(* with the result: ret = "top" (run_string), "block" (handle_block called  *)
(* for a '{' at p) or "def" (handle_block called for '@name {').            *)

NoPosition == TokenPosition(0, 0)

LexFrame(text, position, ret, p, name) ==
    [code |-> text, position |-> position, tokens |-> <<>>, ret |-> ret,
     p |-> p, name |-> name]

\* One call of execute: its tokens, the index of the next one, and, while it
\* is inside the loop of a LOOP keyword, the block being repeated.
Call(toks) == [tokens |-> toks, pc |-> 1, looping |-> FALSE, function |-> <<>>]

EmptyTable == [n \in {} |-> <<>>]

\* functions.insert(name, body)
insert(table, name, body) ==
    [n \in DOMAIN table \cup {name} |-> IF n = name THEN body ELSE table[n]]

contains_key(table, name) == name \in DOMAIN table

Top == lexer[Len(lexer)]

\* The character the while loop of tokenize has just taken, and the text after it.
Character == Head(Top.code)

Unread == Tail(Top.code)

\* A row/column update that moves the column two places.
advance_by_two(position, c) ==
    IF c = "\n" THEN TokenPosition(position.row + 1, 1) ELSE ColPlus(position, 2)

\* The end of an iteration that does not `continue`: the row/column update.
advance(position, c) ==
    IF c = "\n" THEN TokenPosition(position.row + 1, 1) ELSE ColPlus(position, 1)

TokenizerFails(e, fns) ==
    /\ status' = "tokenizer_error"
    /\ error' = e
    /\ lexer' = <<>>
    /\ functions' = fns
    /\ UNCHANGED <<library, value, buffer, decoded, entry, source, tokens, calls, stack, output>>

TokenizerGoesOn(frame) ==
    /\ lexer' = [lexer EXCEPT ![Len(lexer)] = frame]
    /\ UNCHANGED <<library, value, buffer, decoded, entry, source, functions, tokens, calls, stack, output, status, error>>

\* handle_block's call of tokenize on the body it copied.
TokenizerCalls(frame, inner, fns) ==
    /\ lexer' = Append([lexer EXCEPT ![Len(lexer)] = frame], inner)
    /\ functions' = fns
    /\ UNCHANGED <<library, value, buffer, decoded, entry, source, tokens, calls, stack, output, status, error>>

\* A '@' branch that pushes the definition as a Block token too.
block_token_always(caller_tokens, ret, p, toks) ==
    Append(caller_tokens, Token_new(Literal(Block(toks)), p.row, p.col))

\* The caller's tokens after handle_block returned toks: the '{' branch
\* pushes them as a Block token at p, the '@' branch pushes nothing.
block_token(caller_tokens, ret, p, toks) ==
    IF ret = "block"
    THEN Append(caller_tokens, Token_new(Literal(Block(toks)), p.row, p.col))
    ELSE caller_tokens

\* The current call of tokenize returns Ok(toks): to run_string, which
\* executes them on a new stack, to compile_string, which drops them and
\* keeps the table, or to the caller's '{' or '@' branch, which pushes the
\* Block token or updates the table and ends its iteration.
TokenizerReturns(toks) ==
    IF Len(lexer) = 1 /\ entry = "compile_string"
    THEN /\ lexer' = <<>>
         /\ status' = "compile"
         /\ UNCHANGED <<library, value, buffer, decoded, entry, source, functions, tokens, calls, stack, output, error>>
    ELSE IF Len(lexer) = 1
    THEN /\ lexer' = <<>>
         /\ tokens' = toks
         /\ status' = "execute"
         /\ calls' = <<Call(toks)>>
         /\ UNCHANGED <<library, value, buffer, decoded, entry, source, functions, stack, output, error>>
    ELSE LET caller == lexer[Len(lexer) - 1]
             after == [caller EXCEPT
                         !.tokens = block_token(@, Top.ret, Top.p, toks),
                         !.position = ColPlus(@, 1)]
         IN  /\ lexer' = Append(SubSeq(lexer, 1, Len(lexer) - 2), after)
             /\ functions' = IF Top.ret = "def" THEN insert(functions, Top.name, toks)
                             ELSE functions
             /\ UNCHANGED <<library, value, buffer, decoded, entry, source, tokens, calls, stack, output, status, error>>

Tokenizing == status = "tokenize" /\ lexer # <<>> /\ Top.code # <<>>

is_neg_num ==
    Character = "-" /\ Unread # <<>>
        /\ (is_ascii_digit(Head(Unread)) \/ Head(Unread) = ".")

\* while let Some(character) = code.next() fails: return Ok(tokens).
tokenize_end ==
    /\ status = "tokenize" /\ lexer # <<>> /\ Top.code = <<>>
    /\ TokenizerReturns(Top.tokens)

\* character == ';'
tokenize_comment ==
    /\ Tokenizing /\ Character = ";"
    /\ LET r == comment_loop(Top.position, Unread) IN
       TokenizerGoesOn([Top EXCEPT !.code = r.code,
                                   !.position = advance(r.position, Character)])

\* A digit, a '.', or a '-' before a digit or '.'.
tokenize_number ==
    /\ Tokenizing
    /\ is_ascii_digit(Character) \/ Character = "." \/ is_neg_num
    /\ LET start_pos == Top.position
           r == scan_number(Character, Top.position, Unread)
       IN  IF r.err # NoError THEN TokenizerFails(r.err, functions)
           ELSE TokenizerGoesOn([Top EXCEPT
                    !.code = r.code,
                    !.position = r.position,
                    !.tokens = Append(@, Token_new(Literal(r.value),
                                                   start_pos.row, start_pos.col))])

\* character == '"'
tokenize_string ==
    /\ Tokenizing /\ Character = "\""
    /\ LET start_pos == Top.position
           r == string_loop(<<>>, start_pos, Top.position, Unread)
       IN  IF r.err # NoError THEN TokenizerFails(r.err, functions)
           ELSE TokenizerGoesOn([Top EXCEPT
                    !.code = r.code,
                    !.position = advance(r.position, Character),
                    !.tokens = Append(@, Token_new(Literal(String(r.string)),
                                                   start_pos.row, start_pos.col))])

\* character == '{'
tokenize_block ==
    /\ Tokenizing /\ Character = "{"
    /\ LET p == Top.position
           r == handle_block(Top.position, Unread)
       IN  IF r.err # NoError THEN TokenizerFails(r.err, functions)
           ELSE TokenizerCalls([Top EXCEPT !.code = r.code, !.position = r.position],
                               LexFrame(r.inner_code, r.starting_position, "block",
                                        p, <<>>),
                               functions)

\* A '}' branch that takes the brace as whitespace.
tokenize_stray_brace_ignored ==
    /\ Tokenizing /\ Character = "}"
    /\ TokenizerGoesOn([Top EXCEPT !.code = Unread,
                                   !.position = advance(Top.position, Character)])

\* character == '}'
tokenize_stray_brace ==
    /\ Tokenizing /\ Character = "}"
    /\ TokenizerFails(BlockHadNoEnd(Top.position), functions)

\* The operators whose branch only checks the character after them.
SimpleOperators ==
    ("+" :> "Add") @@ ("-" :> "Subtract") @@ ("/" :> "Divide") @@
    ("*" :> "Multiply") @@ ("=" :> "Equal") @@ ("&" :> "And") @@
    ("|" :> "Or") @@ ("$" :> "Run")

\* The branch of '+', '-', '/', '*', '=', '&', '|' and '$': the check of the
\* character after the operator, the token, and the row/column update.
simple_operator(c, position, unread) ==
    LET next_character == IF unread = <<>> THEN " " ELSE Head(unread) IN
    IF ~is_whitespace(next_character)
    THEN [err |-> UnexpectedSymbol(ColPlus(position, 1), next_character)]
    ELSE [err |-> NoError, code |-> unread, position |-> advance(position, c),
          token |-> Token_new(Op(SimpleOperators[c]), position.row, position.col)]

\* character == '+', '-', '/', '*', '=', '&', '|' or '$'
tokenize_operator ==
    /\ Tokenizing /\ Character \in DOMAIN SimpleOperators /\ ~is_neg_num
    /\ LET r == simple_operator(Character, Top.position, Unread) IN
       IF r.err # NoError THEN TokenizerFails(r.err, functions)
       ELSE TokenizerGoesOn([Top EXCEPT !.code = r.code, !.position = r.position,
                                        !.tokens = Append(@, r.token)])

\* The operators that may be followed by '=': the one-character and the
\* two-character operation of each.
EqualsOperators ==
    ("!" :> <<"Not", "NotEqual">>) @@ ("<" :> <<"Lesser", "LesserEqual">>) @@
    (">" :> <<"Greater", "GreaterEqual">>)

\* A two-character operator taken whatever follows it.
two_character_operator_unchecked(c, position, unread) ==
    [err |-> NoError, code |-> Tail(unread), position |-> ColPlus(position, 1),
     token |-> Token_new(Op(EqualsOperators[c][2]), position.row, position.col + 1)]

\* The branch of '!', '<' and '>' when the next character is '=': the
\* two-character operator, which ends the iteration with `continue`.
two_character_operator(c, position, unread) ==
    LET after == Tail(unread)
        next_character == IF after = <<>> THEN " " ELSE Head(after)
    IN  IF ~is_whitespace(next_character)
        THEN [err |-> UnexpectedSymbol(ColPlus(position, 2), next_character)]
        ELSE [err |-> NoError, code |-> after, position |-> ColPlus(position, 1),
              token |-> Token_new(Op(EqualsOperators[c][2]),
                                  position.row, position.col + 1)]

\* The branch of '!', '<' and '>'.
equals_operator(c, position, unread) ==
    LET next_character == IF unread = <<>> THEN " " ELSE Head(unread) IN
    IF next_character = "=" THEN two_character_operator(c, position, unread)
    ELSE [err |-> NoError, code |-> unread, position |-> advance(position, c),
          token |-> Token_new(Op(EqualsOperators[c][1]), position.row, position.col)]

\* character == '!', '<' or '>'
tokenize_equals_operator ==
    /\ Tokenizing /\ Character \in DOMAIN EqualsOperators
    /\ LET r == equals_operator(Character, Top.position, Unread) IN
       IF r.err # NoError THEN TokenizerFails(r.err, functions)
       ELSE TokenizerGoesOn([Top EXCEPT !.code = r.code, !.position = r.position,
                                        !.tokens = Append(@, r.token)])

\* A '@' branch that accepts a name the table holds already.
tokenize_function_def_again ==
    /\ Tokenizing /\ Character = "@"
    /\ LET start_pos == ColPlus(Top.position, 1)
           r == name_loop(<<>>, start_pos, Unread)
           function_name == r.function_name
           position == ColPlus(r.position, 1)
           c == IF r.code = <<>> THEN " " ELSE Head(r.code)
           after == IF r.code = <<>> THEN <<>> ELSE Tail(r.code)
           reserved == insert(functions, function_name, <<>>)
       IN  IF r.err # NoError THEN TokenizerFails(r.err, functions)
           ELSE IF c # "{"
           THEN /\ lexer' = [lexer EXCEPT ![Len(lexer)] =
                                [Top EXCEPT !.code = after,
                                            !.position = advance(position, Character)]]
                /\ functions' = reserved
                /\ UNCHANGED <<library, value, buffer, decoded, entry, source, tokens, calls, stack, output, status, error>>
           ELSE LET b == handle_block(position, after) IN
                IF b.err # NoError THEN TokenizerFails(b.err, reserved)
                ELSE TokenizerCalls([Top EXCEPT !.code = b.code, !.position = b.position],
                                    LexFrame(b.inner_code, b.starting_position, "def",
                                             NoPosition, function_name),
                                    reserved)

\* character == '@'
tokenize_function_def ==
    /\ Tokenizing /\ Character = "@"
    /\ LET start_pos == ColPlus(Top.position, 1)
           r == name_loop(<<>>, start_pos, Unread)
           function_name == r.function_name
           position == ColPlus(r.position, 1)
           c == IF r.code = <<>> THEN " " ELSE Head(r.code)
           after == IF r.code = <<>> THEN <<>> ELSE Tail(r.code)
           reserved == insert(functions, function_name, <<>>)
       IN  IF r.err # NoError THEN TokenizerFails(r.err, functions)
           ELSE IF contains_key(functions, function_name)
           THEN TokenizerFails(FunctionHasMultipleDefinitions(start_pos, function_name),
                               functions)
           ELSE IF c # "{"
           THEN /\ lexer' = [lexer EXCEPT ![Len(lexer)] =
                                [Top EXCEPT !.code = after,
                                            !.position = advance(position, Character)]]
                /\ functions' = reserved
                /\ UNCHANGED <<library, value, buffer, decoded, entry, source, tokens, calls, stack, output, status, error>>
           ELSE LET b == handle_block(position, after) IN
                IF b.err # NoError THEN TokenizerFails(b.err, reserved)
                ELSE TokenizerCalls([Top EXCEPT !.code = b.code, !.position = b.position],
                                    LexFrame(b.inner_code, b.starting_position, "def",
                                             NoPosition, function_name),
                                    reserved)

\* A tokenizer for which `exit` is a keyword like any other.
tokenize_identifier_exit_token ==
    /\ Tokenizing /\ (is_ascii_alphabetic(Character) \/ Character = "_")
    /\ LET starting_position == Top.position
           r == ident_loop(<<Character>>, Top.position, Unread)
           ident == r.ident
           pushed(kind) == [Top EXCEPT
                               !.code = r.code,
                               !.position = r.position,
                               !.tokens = Append(@, Token_new(kind, starting_position.row,
                                                              starting_position.col))]
       IN  IF r.err # NoError THEN TokenizerFails(r.err, functions)
           ELSE IF ident \notin DOMAIN KEYWORDS
           THEN IF contains_key(functions, ident)
                THEN TokenizerGoesOn(pushed(Literal(Function(ident))))
                ELSE TokenizerFails(UnknownIdentifier(starting_position, ident), functions)
           ELSE IF KEYWORDS[ident] = "TRUE"
           THEN TokenizerGoesOn(pushed(Literal(Boolean(TRUE))))
           ELSE IF KEYWORDS[ident] = "FALSE"
           THEN TokenizerGoesOn(pushed(Literal(Boolean(FALSE))))
           ELSE TokenizerGoesOn([pushed(Keyword(KEYWORDS[ident])) EXCEPT
                                    !.position = advance(@, Character)])

\* A tokenizer that takes every identifier for a function.
tokenize_identifier_unchecked ==
    /\ Tokenizing /\ (is_ascii_alphabetic(Character) \/ Character = "_")
    /\ LET starting_position == Top.position
           r == ident_loop(<<Character>>, Top.position, Unread)
           ident == r.ident
           pushed(kind) == [Top EXCEPT
                               !.code = r.code,
                               !.position = r.position,
                               !.tokens = Append(@, Token_new(kind, starting_position.row,
                                                              starting_position.col))]
       IN  IF r.err # NoError THEN TokenizerFails(r.err, functions)
           ELSE IF ident \notin DOMAIN KEYWORDS
           THEN TokenizerGoesOn(pushed(Literal(Function(ident))))
           ELSE IF KEYWORDS[ident] = "TRUE"
           THEN TokenizerGoesOn(pushed(Literal(Boolean(TRUE))))
           ELSE IF KEYWORDS[ident] = "FALSE"
           THEN TokenizerGoesOn(pushed(Literal(Boolean(FALSE))))
           ELSE IF KEYWORDS[ident] = "EXIT"
           THEN TokenizerReturns(Top.tokens)
           ELSE TokenizerGoesOn([pushed(Keyword(KEYWORDS[ident])) EXCEPT
                                    !.position = advance(@, Character)])

\* A letter or '_': a keyword or a reference to a function.
tokenize_identifier ==
    /\ Tokenizing /\ (is_ascii_alphabetic(Character) \/ Character = "_")
    /\ LET starting_position == Top.position
           r == ident_loop(<<Character>>, Top.position, Unread)
           ident == r.ident
           pushed(kind) == [Top EXCEPT
                               !.code = r.code,
                               !.position = r.position,
                               !.tokens = Append(@, Token_new(kind, starting_position.row,
                                                              starting_position.col))]
       IN  IF r.err # NoError THEN TokenizerFails(r.err, functions)
           ELSE IF ident \notin DOMAIN KEYWORDS
           THEN IF contains_key(functions, ident)
                THEN TokenizerGoesOn(pushed(Literal(Function(ident))))
                ELSE TokenizerFails(UnknownIdentifier(starting_position, ident), functions)
           ELSE IF KEYWORDS[ident] = "TRUE"
           THEN TokenizerGoesOn(pushed(Literal(Boolean(TRUE))))
           ELSE IF KEYWORDS[ident] = "FALSE"
           THEN TokenizerGoesOn(pushed(Literal(Boolean(FALSE))))
           ELSE IF KEYWORDS[ident] = "EXIT"
           THEN TokenizerReturns(Top.tokens)
           ELSE TokenizerGoesOn([pushed(Keyword(KEYWORDS[ident])) EXCEPT
                                    !.position = advance(@, Character)])

\* Any other character (whitespace included): only the row/column update.
tokenize_other ==
    /\ Tokenizing
    /\ ~(is_ascii_digit(Character) \/ is_ascii_alphabetic(Character))
    /\ Character \notin {";", ".", "\"", "{", "}", "@", "_", "-"}
                        \cup DOMAIN SimpleOperators \cup DOMAIN EqualsOperators
    /\ TokenizerGoesOn([Top EXCEPT !.code = Unread,
                                   !.position = advance(@, Character)])

tokenize ==
    \/ tokenize_end
    \/ tokenize_comment
    \/ tokenize_number
    \/ tokenize_string
    \/ tokenize_block
    \/ tokenize_stray_brace
    \/ tokenize_operator
    \/ tokenize_equals_operator
    \/ tokenize_function_def
    \/ tokenize_identifier
    \/ tokenize_other

-----------------------------------------------------------------------------
(* The execution engine.  The arms of execute's match are given first as    *)
(* operators on val1 (the value popped first, the top of the stack) and     *)
(* val2 (popped second), or on Stack.data.                                  *)

operation_add(val1, val2) == add(val1, val2)

operation_divide(val1, val2) == div(val2, val1)

operation_multiply(val1, val2) == mul(val1, val2)

\* A subtraction with the operands exchanged.
operation_subtract_exchanged(val1, val2) == sub(val1, val2)

operation_subtract(val1, val2) == sub(val2, val1)

operation_equal(val1, val2) == Some(Boolean(eq(val1, val2)))

operation_not_equal(val1, val2) == Some(Boolean(~eq(val1, val2)))

operation_lesser(val1, val2) == Some(Boolean(lt(val2, val1)))

operation_lesser_equal(val1, val2) == Some(Boolean(le(val2, val1)))

operation_greater(val1, val2) == Some(Boolean(gt(val2, val1)))

operation_greater_equal(val1, val2) == Some(Boolean(ge(val2, val1)))

\* The operations that pop two values of any kind, with the character their
\* error names.
BinaryOperations ==
    ("Add" :> "+") @@ ("Divide" :> "/") @@ ("Multiply" :> "*") @@
    ("Subtract" :> "-") @@ ("Equal" :> "=") @@ ("NotEqual" :> "!") @@
    ("Lesser" :> "<") @@ ("LesserEqual" :> "<") @@ ("Greater" :> ">") @@
    ("GreaterEqual" :> ">")

binary_operation(op, val1, val2) ==
    CASE op = "Add" -> operation_add(val1, val2)
      [] op = "Divide" -> operation_divide(val1, val2)
      [] op = "Multiply" -> operation_multiply(val1, val2)
      [] op = "Subtract" -> operation_subtract(val1, val2)
      [] op = "Equal" -> operation_equal(val1, val2)
      [] op = "NotEqual" -> operation_not_equal(val1, val2)
      [] op = "Lesser" -> operation_lesser(val1, val2)
      [] op = "LesserEqual" -> operation_lesser_equal(val1, val2)
      [] op = "Greater" -> operation_greater(val1, val2)
      [] op = "GreaterEqual" -> operation_greater_equal(val1, val2)

\* Stack::pop and Stack::push on Stack.data
Last(data) == data[Len(data)]

Front(data) == SubSeq(data, 1, Len(data) - 1)

push(data, val) == Append(data, val)

\* Vec::swap, Vec::insert and Vec::remove, with 0-based indices as in the code.
swap(data, a, b) == [data EXCEPT ![a + 1] = data[b + 1], ![b + 1] = data[a + 1]]

vec_insert(data, index, val) ==
    SubSeq(data, 1, index) \o <<val>> \o SubSeq(data, index + 1, Len(data))

vec_remove(data, index) ==
    SubSeq(data, 1, index) \o SubSeq(data, index + 2, Len(data))

\* The stack keywords: Ok(data) with the new Stack.data, or Err(data, kw) with
\* the data as the failing arm leaves it and the keyword its error names.
Ok(data) == [ok |-> TRUE, data |-> data]

Err(data, kw) == [ok |-> FALSE, data |-> data, kw |-> kw]

keyword_duplicate(data) ==
    IF data = <<>> THEN Err(data, "DUPLICATE")
    ELSE Ok(push(push(Front(data), Last(data)), Last(data)))

keyword_drop(data) == IF data = <<>> THEN Ok(data) ELSE Ok(Front(data))

keyword_swap(data) ==
    IF Len(data) < 2 THEN Err(data, "SWAP")
    ELSE LET a == Last(data)
             b == Last(Front(data))
         IN  Ok(push(push(Front(Front(data)), b), a))

keyword_depth(data) == Ok(push(data, Integer(Len(data))))

keyword_rot(data) ==
    LET len == Len(data) IN
    IF len < 3 THEN Err(data, "ROT")
    ELSE Ok(swap(swap(data, len - 1, len - 2), len - 3, len - 1))

\* An NROT that rotates the way ROT does.
keyword_nrot_as_rot(data) ==
    LET len == Len(data) IN
    IF len < 3 THEN Err(data, "NROT")
    ELSE Ok(swap(swap(data, len - 1, len - 2), len - 3, len - 1))

keyword_nrot(data) ==
    LET len == Len(data) IN
    IF len < 3 THEN Err(data, "NROT")
    ELSE Ok(swap(swap(data, len - 3, len - 1), len - 2, len - 1))

keyword_over(data) ==
    LET len == Len(data) IN
    IF len < 2 THEN Err(data, "OVER")
    ELSE Ok(push(data, data[(len - 2) + 1]))

keyword_tuck(data) ==
    LET len == Len(data) IN
    IF len < 2 THEN Err(data, "TUCK")
    ELSE LET val == Last(data) IN
         Ok(push(vec_insert(Front(data), len - 2, val), val))

keyword_clear(data) == Ok(<<>>)

type_name(val) ==
    CASE val.k = "Block" -> Chars("block")
      [] val.k = "Integer" -> Chars("int")
      [] val.k = "Float" -> Chars("float")
      [] val.k = "String" -> Chars("string")
      [] val.k = "Boolean" -> Chars("bool")
      [] val.k = "Tag" -> val.tag
      [] val.k = "Function" -> Chars("function")

keyword_type(data) ==
    IF data = <<>> THEN Err(data, "TYPE")
    ELSE Ok(push(Front(data), Tag(type_name(Last(data)))))

\* A PICK that counts from the top of the stack.
keyword_pick_from_top(data, i) ==
    LET index == IF i = I32Min THEN I32Max ELSE i - 1 IN
    IF index < 0 THEN Err(data, "ROLL")
    ELSE IF Len(data) <= index THEN Err(data, "PICK")
    ELSE Ok(push(data, data[Len(data) - index]))

\* A ROLL that leaves the value where it was.
keyword_roll_copies(data, i) ==
    LET index == IF i = I32Min THEN I32Max ELSE i - 1 IN
    IF index < 0 THEN Err(data, "ROLL")
    ELSE IF Len(data) <= index THEN Err(data, "ROLL")
    ELSE Ok(push(data, data[index + 1]))

\* PICK and ROLL after their index operand i was popped: the index i - 1
\* wraps to I32Max for i = I32Min in a build without overflow checks.
keyword_pick(data, i) ==
    LET index == IF i = I32Min THEN I32Max ELSE i - 1 IN
    IF index < 0 THEN Err(data, "ROLL")
    ELSE IF Len(data) <= index THEN Err(data, "PICK")
    ELSE Ok(push(data, data[index + 1]))

keyword_roll(data, i) ==
    LET index == IF i = I32Min THEN I32Max ELSE i - 1 IN
    IF index < 0 THEN Err(data, "ROLL")
    ELSE IF Len(data) <= index THEN Err(data, "ROLL")
    ELSE Ok(push(vec_remove(data, index), data[index + 1]))

StackKeywords ==
    {"DUPLICATE", "DROP", "SWAP", "DEPTH", "ROT", "NROT", "OVER", "TUCK", "CLEAR", "TYPE"}

stack_keyword(kw, data) ==
    CASE kw = "DUPLICATE" -> keyword_duplicate(data)
      [] kw = "DROP" -> keyword_drop(data)
      [] kw = "SWAP" -> keyword_swap(data)
      [] kw = "DEPTH" -> keyword_depth(data)
      [] kw = "ROT" -> keyword_rot(data)
      [] kw = "NROT" -> keyword_nrot(data)
      [] kw = "OVER" -> keyword_over(data)
      [] kw = "TUCK" -> keyword_tuck(data)
      [] kw = "CLEAR" -> keyword_clear(data)
      [] kw = "TYPE" -> keyword_type(data)

\* A Literal token pushed as it is.
literal_value_unresolved(lit, function_table) == lit

\* What a Literal token pushes.
\* A lookup that answers with what the '@' branch registered first: no body.
literal_value_registered(lit, function_table) ==
    IF lit.k = "Function" THEN Tag(lit.fn) ELSE lit

literal_value(lit, function_table) ==
    IF lit.k = "Function"
    THEN LET function_definition == function_table[lit.fn] IN
         IF function_definition = <<>> THEN Tag(lit.fn)
         ELSE Block(function_definition)
    ELSE lit

-----------------------------------------------------------------------------
(* The steps of execute: one per token, on the innermost call.              *)

Cur == calls[Len(calls)]

\* The token the for loop of the innermost call is at.
Token == Cur.tokens[Cur.pc]

Executing ==
    status = "execute" /\ calls # <<>> /\ ~Cur.looping /\ Cur.pc <= Len(Cur.tokens)

IsOp(ops) == Executing /\ Token.kind.t = "Op" /\ Token.kind.op \in ops

IsKeyword(kws) == Executing /\ Token.kind.t = "Keyword" /\ Token.kind.kw \in kws

\* The token is done: the for loop goes to the next one.
ExecuteGoesOn(data) ==
    /\ calls' = [calls EXCEPT ![Len(calls)].pc = @ + 1]
    /\ stack' = data
    /\ UNCHANGED <<library, value, buffer, decoded, entry, source, lexer, functions, tokens, output, status, error>>

\* return Err(e): the call ends with the error, which its caller receives.
ExecuteFails(e, data) ==
    /\ status' = "runtime_error"
    /\ error' = e
    /\ calls' = Front(calls)
    /\ stack' = data
    /\ UNCHANGED <<library, value, buffer, decoded, entry, source, lexer, functions, tokens, output>>

\* A panic: the process ends.
ExecutePanics(data) ==
    /\ status' = "panic"
    /\ calls' = <<>>
    /\ stack' = data
    /\ UNCHANGED <<library, value, buffer, decoded, entry, source, lexer, functions, tokens, output, error>>

\* execute(&block, stack, function_table)? called by the token: the for loop
\* of the caller goes to its next token when the call returns Ok.
\* The calls of execute inside one another that the stack of the host has
\* room for.
MaxCalls == 6

\* A call of execute that the stack of the host has no room for: the process
\* is aborted.
ExecuteOverflows(data) ==
    /\ status' = "stack_overflow"
    /\ calls' = <<>>
    /\ stack' = data
    /\ UNCHANGED <<library, value, buffer, decoded, entry, source, lexer, functions, tokens, output, error>>

ExecuteCalls(block, data) ==
    IF Len(calls) >= MaxCalls THEN ExecuteOverflows(data)
    ELSE
    /\ calls' = Append([calls EXCEPT ![Len(calls)].pc = @ + 1], Call(block))
    /\ stack' = data
    /\ UNCHANGED <<library, value, buffer, decoded, entry, source, lexer, functions, tokens, output, status, error>>

\* The innermost call returns Ok(()).
ExecuteReturns ==
    /\ calls' = Front(calls)
    /\ status' = IF Len(calls) = 1 THEN "ok" ELSE status
    /\ UNCHANGED <<library, value, buffer, decoded, entry, source, lexer, functions, tokens, stack, output, error>>

\* An error that the caller passes on and forgets: the caller goes on as if
\* the call had returned Ok.
execute_error_forgotten ==
    /\ status = "runtime_error" /\ calls # <<>>
    /\ status' = "execute"
    /\ error' = NoError
    /\ UNCHANGED <<library, value, buffer, decoded, entry, source, lexer, functions, tokens, calls, stack, output>>

\* execute(&block, stack, function_table)?: the call returned Err(e), and the
\* caller returns it at once.
execute_error ==
    /\ status = "runtime_error" /\ calls # <<>>
    /\ calls' = Front(calls)
    /\ UNCHANGED <<library, value, buffer, decoded, entry, source, lexer, functions, tokens, stack, output, status, error>>

\* The for loop is over: Ok(()).
execute_end ==
    /\ status = "execute" /\ calls # <<>> /\ ~Cur.looping
    /\ Cur.pc > Len(Cur.tokens)
    /\ ExecuteReturns

\* TokenType::Literal
execute_literal ==
    /\ Executing /\ Token.kind.t = "Literal"
    /\ LET lit == Token.kind.lit IN
       IF lit.k = "Function" /\ ~contains_key(functions, lit.fn)
       THEN ExecutePanics(stack)
       ELSE ExecuteGoesOn(push(stack, literal_value(lit, functions)))

\* The outcome of an operation's result res with Stack.data as the pops left
\* it: checks tells whether the build checks integer overflow.
Outcome(res, data, c, checks) ==
    LET final == IF res.r = "Overflow"
                 THEN (IF checks THEN Abort ELSE res.wrapped)
                 ELSE res
    IN  CASE final.r = "Some" -> ExecuteGoesOn(push(data, final.v))
          [] final.r = "None" -> ExecuteFails(OperatorInvalidValues(Token.pos, c), data)
          [] final.r = "Abort" -> ExecutePanics(data)

\* Operation::Add ... Operation::GreaterEqual: pop val1, pop val2, push the result.
execute_binary_operation ==
    /\ IsOp(DOMAIN BinaryOperations)
    /\ LET op == Token.kind.op
           c == BinaryOperations[op]
       IN  IF Len(stack) = 0
           THEN ExecuteFails(OperatorInvalidValues(Token.pos, c), stack)
           ELSE IF Len(stack) = 1
           THEN ExecuteFails(OperatorInvalidValues(Token.pos, c), Front(stack))
           ELSE LET val1 == Last(stack)
                    val2 == Last(Front(stack))
                    res == binary_operation(op, val1, val2)
                IN  \E checks \in IF res.r = "Overflow" THEN BOOLEAN ELSE {TRUE} :
                        Outcome(res, Front(Front(stack)), c, checks)

\* Operation::Not
execute_not ==
    /\ IsOp({"Not"})
    /\ IF stack = <<>>
       THEN ExecuteFails(OperatorInvalidValues(Token.pos, "!"), stack)
       ELSE Outcome(not(Last(stack)), Front(stack), "!", TRUE)

LogicOperations == ("And" :> "&") @@ ("Or" :> "|")

\* Operation::And, Operation::Or: each operand must be a Boolean as it is popped.
execute_logic ==
    /\ IsOp(DOMAIN LogicOperations)
    /\ LET op == Token.kind.op
           c == LogicOperations[op]
       IN  IF stack = <<>>
           THEN ExecuteFails(OperatorInvalidValues(Token.pos, c), stack)
           ELSE IF Last(stack).k # "Boolean" \/ Len(stack) = 1
           THEN ExecuteFails(OperatorInvalidValues(Token.pos, c), Front(stack))
           ELSE IF Last(Front(stack)).k # "Boolean"
           THEN ExecuteFails(OperatorInvalidValues(Token.pos, c), Front(Front(stack)))
           ELSE LET val1 == Last(stack).b
                    val2 == Last(Front(stack)).b
                IN  ExecuteGoesOn(push(Front(Front(stack)),
                                       Boolean(IF op = "And" THEN val1 /\ val2
                                               ELSE val1 \/ val2)))

\* Operation::Run
\* A Run that leaves the block it runs on the stack.
execute_run_peek ==
    /\ IsOp({"Run"})
    /\ IF stack = <<>>
       THEN ExecuteFails(OperatorInvalidValues(Token.pos, "$"), stack)
       ELSE IF Last(stack).k # "Block"
       THEN ExecuteFails(OperatorInvalidValues(Token.pos, "$"), Front(stack))
       ELSE ExecuteCalls(Last(stack).body, stack)

execute_run ==
    /\ IsOp({"Run"})
    /\ IF stack = <<>>
       THEN ExecuteFails(OperatorInvalidValues(Token.pos, "$"), stack)
       ELSE IF Last(stack).k # "Block"
       THEN ExecuteFails(OperatorInvalidValues(Token.pos, "$"), Front(stack))
       ELSE ExecuteCalls(Last(stack).body, Front(stack))

\* Keyword::PRINT
\* A PRINT that writes the top of the stack and leaves it there.
keyword_print_peek ==
    /\ IsKeyword({"PRINT"})
    /\ output' = Append(output, IF stack = <<>> THEN String(<<>>) ELSE Last(stack))
    /\ calls' = [calls EXCEPT ![Len(calls)].pc = @ + 1]
    /\ UNCHANGED <<library, value, buffer, decoded, entry, source, lexer, functions, tokens, stack,
                   status, error>>

keyword_print ==
    /\ IsKeyword({"PRINT"})
    /\ output' = Append(output, IF stack = <<>> THEN String(<<>>) ELSE Last(stack))
    /\ stack' = IF stack = <<>> THEN stack ELSE Front(stack)
    /\ calls' = [calls EXCEPT ![Len(calls)].pc = @ + 1]
    /\ UNCHANGED <<library, value, buffer, decoded, entry, source, lexer, functions, tokens, status, error>>

\* An EXIT that ends the whole run.
keyword_exit_ends_run ==
    /\ IsKeyword({"EXIT"})
    /\ calls' = <<>>
    /\ status' = "ok"
    /\ UNCHANGED <<library, value, buffer, decoded, entry, source, lexer, functions, tokens, stack, output, error>>

\* Keyword::EXIT
keyword_exit ==
    /\ IsKeyword({"EXIT"})
    /\ ExecuteReturns

\* Keyword::LOOP: the pop of the block, before the loop.
keyword_loop ==
    /\ IsKeyword({"LOOP"})
    /\ IF stack = <<>>
       THEN ExecuteFails(KeywordInvalidValues(Token.pos, "LOOP"), stack)
       ELSE IF Last(stack).k # "Block"
       THEN ExecuteFails(KeywordInvalidValues(Token.pos, "LOOP"), Front(stack))
       ELSE /\ calls' = [calls EXCEPT ![Len(calls)].looping = TRUE,
                                      ![Len(calls)].function = Last(stack).body]
            /\ stack' = Front(stack)
            /\ UNCHANGED <<library, value, buffer, decoded, entry, source, lexer, functions, tokens, output, status, error>>

\* A loop that goes on until the condition popped is true.
keyword_loop_iteration_until_true ==
    /\ status = "execute" /\ calls # <<>> /\ Cur.looping
    /\ IF stack = <<>>
       THEN ExecuteFails(KeywordInvalidValues(Token.pos, "LOOP"), stack)
       ELSE IF Last(stack).k # "Boolean"
       THEN ExecuteFails(KeywordInvalidValues(Token.pos, "LOOP"), Front(stack))
       ELSE IF Last(stack).b
       THEN /\ calls' = [calls EXCEPT ![Len(calls)].looping = FALSE,
                                      ![Len(calls)].function = <<>>,
                                      ![Len(calls)].pc = @ + 1]
            /\ stack' = Front(stack)
            /\ UNCHANGED <<library, value, buffer, decoded, entry, source, lexer, functions, tokens, output, status, error>>
       ELSE IF Len(calls) >= MaxCalls THEN ExecuteOverflows(Front(stack))
       ELSE /\ calls' = Append(calls, Call(Cur.function))
            /\ stack' = Front(stack)
            /\ UNCHANGED <<library, value, buffer, decoded, entry, source, lexer, functions, tokens, output, status, error>>

\* One iteration of the loop of Keyword::LOOP: pop the condition, then break
\* or call execute on the block.
keyword_loop_iteration ==
    /\ status = "execute" /\ calls # <<>> /\ Cur.looping
    /\ IF stack = <<>>
       THEN ExecuteFails(KeywordInvalidValues(Token.pos, "LOOP"), stack)
       ELSE IF Last(stack).k # "Boolean"
       THEN ExecuteFails(KeywordInvalidValues(Token.pos, "LOOP"), Front(stack))
       ELSE IF ~Last(stack).b
       THEN /\ calls' = [calls EXCEPT ![Len(calls)].looping = FALSE,
                                      ![Len(calls)].function = <<>>,
                                      ![Len(calls)].pc = @ + 1]
            /\ stack' = Front(stack)
            /\ UNCHANGED <<library, value, buffer, decoded, entry, source, lexer, functions, tokens, output, status, error>>
       ELSE IF Len(calls) >= MaxCalls THEN ExecuteOverflows(Front(stack))
       ELSE /\ calls' = Append(calls, Call(Cur.function))
            /\ stack' = Front(stack)
            /\ UNCHANGED <<library, value, buffer, decoded, entry, source, lexer, functions, tokens, output, status, error>>

\* Keyword::DUPLICATE, DROP, SWAP, DEPTH, ROT, NROT, OVER, TUCK, CLEAR, TYPE
keyword_stack ==
    /\ IsKeyword(StackKeywords)
    /\ LET r == stack_keyword(Token.kind.kw, stack) IN
       IF r.ok THEN ExecuteGoesOn(r.data)
       ELSE ExecuteFails(KeywordInvalidValues(Token.pos, r.kw), r.data)

\* Keyword::PICK, Keyword::ROLL: pop the Integer index, then pick or roll.
keyword_pick_roll ==
    /\ IsKeyword({"PICK", "ROLL"})
    /\ LET kw == Token.kind.kw IN
       IF stack = <<>>
       THEN ExecuteFails(KeywordInvalidValues(Token.pos, kw), stack)
       ELSE IF Last(stack).k # "Integer"
       THEN ExecuteFails(KeywordInvalidValues(Token.pos, kw), Front(stack))
       ELSE LET i == Last(stack).i
                r == IF kw = "PICK" THEN keyword_pick(Front(stack), i)
                     ELSE keyword_roll(Front(stack), i)
            IN  \E checks \in IF i = I32Min THEN BOOLEAN ELSE {FALSE} :
                    IF checks THEN ExecutePanics(Front(stack))
                    ELSE IF r.ok THEN ExecuteGoesOn(r.data)
                    ELSE ExecuteFails(KeywordInvalidValues(Token.pos, r.kw), r.data)

\* A GATE of two arguments that runs its block when the condition is false.
keyword_gate_when_false ==
    /\ IsKeyword({"GATE"})
    /\ LET e == KeywordInvalidValues(Token.pos, "GATE")
           n == Len(stack)
       IN  IF n = 0 THEN ExecuteFails(e, stack)
           ELSE IF stack[n].k # "Block" \/ n = 1 THEN ExecuteFails(e, Front(stack))
           ELSE LET true_func == stack[n].body
                    second == stack[n - 1]
                IN  CASE second.k = "Block" ->
                            IF n = 2 \/ stack[n - 2].k # "Boolean"
                            THEN ExecuteFails(e, SubSeq(stack, 1, IF n = 2 THEN 0 ELSE n - 3))
                            ELSE ExecuteCalls(IF stack[n - 2].b THEN true_func
                                              ELSE second.body,
                                              SubSeq(stack, 1, n - 3))
                      [] second.k = "Boolean" ->
                            ExecuteCalls(IF second.b THEN <<>> ELSE true_func,
                                         SubSeq(stack, 1, n - 2))
                      [] OTHER -> ExecuteFails(e, SubSeq(stack, 1, n - 2))

\* Keyword::GATE: pop the blocks and the condition, then call execute.
keyword_gate ==
    /\ IsKeyword({"GATE"})
    /\ LET e == KeywordInvalidValues(Token.pos, "GATE")
           n == Len(stack)
       IN  IF n = 0 THEN ExecuteFails(e, stack)
           ELSE IF stack[n].k # "Block" \/ n = 1 THEN ExecuteFails(e, Front(stack))
           ELSE LET true_func == stack[n].body
                    second == stack[n - 1]
                IN  CASE second.k = "Block" ->
                            IF n = 2 \/ stack[n - 2].k # "Boolean"
                            THEN ExecuteFails(e, SubSeq(stack, 1, IF n = 2 THEN 0 ELSE n - 3))
                            ELSE ExecuteCalls(IF stack[n - 2].b THEN true_func
                                              ELSE second.body,
                                              SubSeq(stack, 1, n - 3))
                      [] second.k = "Boolean" ->
                            ExecuteCalls(IF second.b THEN true_func ELSE <<>>,
                                         SubSeq(stack, 1, n - 2))
                      [] OTHER -> ExecuteFails(e, SubSeq(stack, 1, n - 2))

\* The arm `_ => ()` of the keywords that execute does not use.
UnusedKeywords == {"TRUE", "FALSE", "USE", "INPUT", "STRLEN"}

\* A default arm that takes a value off the stack.
keyword_unused_drops ==
    /\ IsKeyword(UnusedKeywords)
    /\ ExecuteGoesOn(IF stack = <<>> THEN stack ELSE Front(stack))

keyword_unused ==
    /\ IsKeyword(UnusedKeywords)
    /\ ExecuteGoesOn(stack)

execute ==
    \/ execute_end
    \/ execute_literal
    \/ execute_binary_operation
    \/ execute_error
    \/ execute_not
    \/ execute_logic
    \/ execute_run
    \/ keyword_print
    \/ keyword_exit
    \/ keyword_loop
    \/ keyword_loop_iteration
    \/ keyword_stack
    \/ keyword_pick_roll
    \/ keyword_gate
    \/ keyword_unused

-----------------------------------------------------------------------------
(* The byte codec: impl ByteSized of types.rs and lexer.rs.  A buffer is a  *)
(* sequence of bytes 0..255; from_bytes returns Decoded(val, read) for     *)
(* Ok((val, read)) and NotDecoded(e) for Err(e).  The texts of the model   *)
(* are ASCII: a payload with a byte over 127 is taken for invalid UTF-8.   *)

EndOfFile == [type |-> "EndOfFile"]

InvalidTagByte(b) == [type |-> "InvalidTagByte", byte |-> b]

InvalidUTF8Encoding == [type |-> "InvalidUTF8Encoding"]

Decoded(val, read) == [ok |-> TRUE, val |-> val, read |-> read]

NotDecoded(e) == [ok |-> FALSE, err |-> e]

\* bytes[from..]
SliceFrom(bytes, from) == SubSeq(bytes, from + 1, Len(bytes))

\* The characters ' ' (32) to '~' (126) in the order of their codes.
\* The character of code 96, which a string of the model cannot hold.
GRAVE == "GRAVE"

Printable ==
    Chars(" !\"#$%&'()*+,-./0123456789:;<=>?@ABCDEFGHIJKLMNOPQRSTUVWXYZ[\\]^_")
    \o <<GRAVE>> \o Chars("abcdefghijklmnopqrstuvwxyz{|}~")

\* str::as_bytes and String::from_utf8 on ASCII.
as_bytes(s) ==
    [i \in 1..Len(s) |->
        CASE s[i] = NUL -> 0
          [] s[i] = "\t" -> 9
          [] s[i] = "\n" -> 10
          [] s[i] = "\r" -> 13
          [] OTHER -> 31 + CHOOSE j \in 1..Len(Printable) : Printable[j] = s[i]]

from_utf8(payload) ==
    IF \E i \in 1..Len(payload) : payload[i] > 127
    THEN NotDecoded(InvalidUTF8Encoding)
    ELSE Decoded([i \in 1..Len(payload) |->
                    CASE payload[i] = 0 -> NUL
                      [] payload[i] = 9 -> "\t"
                      [] payload[i] = 10 -> "\n"
                      [] payload[i] = 13 -> "\r"
                      [] payload[i] \in 32..126 -> Printable[payload[i] - 31]
                      [] OTHER -> [code |-> payload[i]]],
                 Len(payload))

\* u32::to_be_bytes and u32::from_be_bytes; a u32 of 2^31 or more, longer
\* than any buffer, is held as I32Max.
u32_to_be_bytes(n) ==
    <<n \div 16777216, (n \div 65536) % 256, (n \div 256) % 256, n % 256>>

u32_from_be_bytes(b) ==
    IF b[1] > 127 THEN I32Max
    ELSE b[1] * 16777216 + b[2] * 65536 + b[3] * 256 + b[4]

\* i32::to_be_bytes and i32::from_be_bytes: two's complement.
i32_to_be_bytes(i) ==
    LET low == IF i < 0 THEN i - I32Min ELSE i IN
    <<(IF i < 0 THEN 128 ELSE 0) + low \div 16777216, (low \div 65536) % 256,
      (low \div 256) % 256, low % 256>>

i32_from_be_bytes(b) ==
    LET low == (b[1] % 128) * 16777216 + b[2] * 65536 + b[3] * 256 + b[4] IN
    IF b[1] > 127 THEN I32Min + low ELSE low

RECURSIVE Log2(_)
Log2(n) == IF n <= 1 THEN 0 ELSE 1 + Log2(n \div 2)

RECURSIVE Pow2(_)
Pow2(k) == IF k = 0 THEN 1 ELSE 2 * Pow2(k - 1)

\* f32::to_be_bytes of an f32 the model holds exactly (n under 2^24, d a
\* power of two): sign, exponent and fraction of IEEE 754 binary32.
f32_to_be_bytes(f) ==
    IF IsNaN(f) THEN <<127, 192, 0, 0>>
    ELSE IF IsInf(f) THEN <<IF f.n > 0 THEN 127 ELSE 255, 128, 0, 0>>
    ELSE IF f.n = 0 THEN <<0, 0, 0, 0>>
    ELSE LET a == Abs(f.n)
             exponent == Log2(a) - Log2(f.d) + 127
             fraction == a * Pow2(23 - Log2(a)) - Pow2(23)
         IN  <<(IF f.n < 0 THEN 128 ELSE 0) + exponent \div 2,
               (exponent % 2) * 128 + fraction \div 65536,
               (fraction \div 256) % 256, fraction % 256>>

\* f32::from_be_bytes; an f32 that is no ratio of two i32 is held by its bits.
f32_from_be_bytes(b) ==
    LET exponent == (b[1] % 128) * 2 + b[2] \div 128
        fraction == (b[2] % 128) * 65536 + b[3] * 256 + b[4]
        sign == IF b[1] > 127 THEN -1 ELSE 1
    IN  IF exponent = 255 THEN (IF fraction = 0 THEN Float(sign, 0) ELSE Float(0, 0))
        ELSE IF exponent = 0 /\ fraction = 0 THEN Float(0, 1)
        ELSE IF exponent \in 150..157
        THEN Float(sign * (Pow2(23) + fraction) * Pow2(exponent - 150), 1)
        ELSE IF exponent \in 120..149
        THEN Ratio(sign * (Pow2(23) + fraction), Pow2(150 - exponent))
        ELSE [k |-> "Float", bits |-> b]

\* impl ByteSized for Keyword and for Operation: the tag of each variant is
\* its place in these lists.
KeywordTags ==
    <<"PRINT", "TRUE", "FALSE", "EXIT", "LOOP", "GATE", "DUPLICATE", "DROP", "SWAP",
      "DEPTH", "ROT", "NROT", "OVER", "TUCK", "PICK", "ROLL", "CLEAR", "TYPE", "USE",
      "INPUT", "STRLEN">>

OperationTags ==
    <<"Add", "Subtract", "Multiply", "Divide", "Equal", "NotEqual", "Greater", "Lesser",
      "GreaterEqual", "LesserEqual", "And", "Or", "Not", "Run">>

variant_to_bytes(tags, variant) == <<CHOOSE i \in 1..Len(tags) : tags[i] = variant>>

variant_from_bytes(tags, bytes) ==
    IF bytes = <<>> THEN NotDecoded(EndOfFile)
    ELSE IF bytes[1] \in 1..Len(tags) THEN Decoded(tags[bytes[1]], 1)
    ELSE NotDecoded(InvalidTagByte(bytes[1]))

\* impl ByteSized for TokenPosition
TokenPosition_to_bytes(pos) == u32_to_be_bytes(pos.row) \o u32_to_be_bytes(pos.col)

\* A decoder of positions that reads the column first.
TokenPosition_from_bytes_column_first(bytes) ==
    IF Len(bytes) < 8 THEN NotDecoded(EndOfFile)
    ELSE Decoded(TokenPosition(u32_from_be_bytes(SubSeq(bytes, 5, 8)),
                               u32_from_be_bytes(SubSeq(bytes, 1, 4))), 8)

TokenPosition_from_bytes(bytes) ==
    IF Len(bytes) < 8 THEN NotDecoded(EndOfFile)
    ELSE Decoded(TokenPosition(u32_from_be_bytes(SubSeq(bytes, 1, 4)),
                               u32_from_be_bytes(SubSeq(bytes, 5, 8))), 8)

\* Value::String, Value::Function and Value::Tag: the tag, the length of the
\* text in bytes, the text.
text_to_bytes(tag, s) == <<tag>> \o u32_to_be_bytes(Len(as_bytes(s))) \o as_bytes(s)

\* A decoder of texts that takes the bytes there are when the buffer ends
\* before the text does.
text_from_bytes_unchecked(bytes) ==
    IF Len(bytes) < 5 THEN NotDecoded(EndOfFile)
    ELSE LET len == u32_from_be_bytes(SubSeq(bytes, 2, 5))
             end == IF Len(bytes) - 5 < len THEN Len(bytes) ELSE 5 + len
             string == from_utf8(SubSeq(bytes, 6, end))
         IN  IF ~string.ok THEN string
             ELSE Decoded(string.val, end)

\* The arms 0x04, 0x06 and 0x07 of Value::from_bytes: the text and the bytes read.
text_from_bytes(bytes) ==
    IF Len(bytes) < 5 THEN NotDecoded(EndOfFile)
    ELSE LET len == u32_from_be_bytes(SubSeq(bytes, 2, 5)) IN
         IF Len(bytes) - 5 < len THEN NotDecoded(EndOfFile)
         ELSE LET string == from_utf8(SubSeq(bytes, 6, 5 + len)) IN
              IF ~string.ok THEN string
              ELSE Decoded(string.val, 5 + len)

RECURSIVE Value_to_bytes(_), Token_to_bytes(_), tokens_to_bytes(_)

\* impl ByteSized for Value: to_bytes
Value_to_bytes(self) ==
    CASE self.k = "Integer" -> <<1>> \o i32_to_be_bytes(self.i)
      [] self.k = "Float" -> <<2>> \o f32_to_be_bytes(self)
      [] self.k = "Boolean" -> <<3, IF self.b THEN 1 ELSE 0>>
      [] self.k = "String" -> text_to_bytes(4, self.s)
      [] self.k = "Block" ->
            <<5>> \o u32_to_be_bytes(Len(self.body)) \o tokens_to_bytes(self.body)
      [] self.k = "Function" -> text_to_bytes(6, self.fn)
      [] self.k = "Tag" -> text_to_bytes(7, self.tag)

\* impl ByteSized for TokenType and for Token: to_bytes
Token_to_bytes(self) ==
    LET kind == self.kind IN
    (CASE kind.t = "Literal" -> <<1>> \o Value_to_bytes(kind.lit)
       [] kind.t = "Op" -> <<2>> \o variant_to_bytes(OperationTags, kind.op)
       [] kind.t = "Keyword" -> <<3>> \o variant_to_bytes(KeywordTags, kind.kw))
    \o TokenPosition_to_bytes(self.pos)

\* for token in t { bytes.append(&mut token.to_bytes()) }
tokens_to_bytes(t) == IF t = <<>> THEN <<>> ELSE Token_to_bytes(Head(t)) \o tokens_to_bytes(Tail(t))

RECURSIVE Value_from_bytes(_), TokenType_from_bytes(_), Token_from_bytes(_)
RECURSIVE block_from_bytes(_, _, _, _)

\* impl ByteSized for Value: from_bytes
Value_from_bytes(bytes) ==
    IF bytes = <<>> THEN NotDecoded(EndOfFile)
    ELSE LET tag == bytes[1] IN
         CASE tag = 1 ->
                IF Len(bytes) < 5 THEN NotDecoded(EndOfFile)
                ELSE Decoded(Integer(i32_from_be_bytes(SubSeq(bytes, 2, 5))), 5)
           [] tag = 2 ->
                IF Len(bytes) < 5 THEN NotDecoded(EndOfFile)
                ELSE Decoded(f32_from_be_bytes(SubSeq(bytes, 2, 5)), 5)
           [] tag = 3 ->
                IF Len(bytes) < 2 THEN NotDecoded(EndOfFile)
                ELSE IF bytes[2] = 1 THEN Decoded(Boolean(TRUE), 2)
                ELSE IF bytes[2] = 0 THEN Decoded(Boolean(FALSE), 2)
                ELSE NotDecoded(InvalidTagByte(bytes[2]))
           [] tag \in {4, 6, 7} ->
                LET text == text_from_bytes(bytes) IN
                IF ~text.ok THEN text
                ELSE Decoded(IF tag = 4 THEN String(text.val)
                             ELSE IF tag = 6 THEN Function(text.val)
                             ELSE Tag(text.val), text.read)
           [] tag = 5 ->
                IF Len(bytes) < 5 THEN NotDecoded(EndOfFile)
                ELSE LET len == u32_from_be_bytes(SubSeq(bytes, 2, 5)) IN
                     IF Len(bytes) - 5 < len THEN NotDecoded(EndOfFile)
                     ELSE block_from_bytes(bytes, 5, len, <<>>)
           [] OTHER -> NotDecoded(InvalidTagByte(tag))

\* for _ in 0..len: the tokens of a block, one after the other from offset.
block_from_bytes(bytes, offset, len, toks) ==
    IF len = 0 THEN Decoded(Block(toks), offset)
    ELSE LET token == Token_from_bytes(SliceFrom(bytes, offset)) IN
         IF ~token.ok THEN token
         ELSE block_from_bytes(bytes, offset + token.read, len - 1, Append(toks, token.val))

\* impl ByteSized for TokenType: from_bytes
TokenType_from_bytes(bytes) ==
    IF Len(bytes) < 2 THEN NotDecoded(EndOfFile)
    ELSE LET r == CASE bytes[1] = 1 -> Value_from_bytes(Tail(bytes))
                    [] bytes[1] = 2 -> variant_from_bytes(OperationTags, Tail(bytes))
                    [] bytes[1] = 3 -> variant_from_bytes(KeywordTags, Tail(bytes))
                    [] OTHER -> NotDecoded(InvalidTagByte(bytes[1]))
         IN  IF ~r.ok THEN r
             ELSE Decoded(CASE bytes[1] = 1 -> Literal(r.val)
                            [] bytes[1] = 2 -> Op(r.val)
                            [] bytes[1] = 3 -> Keyword(r.val),
                          r.read + 1)

\* impl ByteSized for Token: from_bytes
Token_from_bytes(bytes) ==
    IF bytes = <<>> THEN NotDecoded(EndOfFile)
    ELSE LET kind == TokenType_from_bytes(bytes) IN
         IF ~kind.ok THEN kind
         ELSE LET pos == TokenPosition_from_bytes(SliceFrom(bytes, kind.read)) IN
              IF ~pos.ok THEN pos
              ELSE Decoded([kind |-> kind.val, pos |-> pos.val], kind.read + pos.read)

-----------------------------------------------------------------------------
(* The inputs.  run_string is given a source text; execute is also entered  *)
(* directly, with tokens and a stack that no source text produces.          *)

\* The texts of ws, each followed by gap.
RECURSIVE Join(_, _)
Join(ws, gap) == IF ws = <<>> THEN <<>> ELSE Head(ws) \o gap \o Join(Tail(ws), gap)

\* The longest operand list of an operation source.
MaxOperands == 2

\* The deepest stack execute is entered with.
MaxDepth == 3

\* Literals of every kind a source text can push.
Operands ==
    {Chars("1"), Chars("2"), Chars("0.5"), Chars("true"), Chars("false"),
     Chars("\"a\""), Chars("\"bc\""), Chars("{ 1 }")}

OperatorTexts ==
    {Chars("+"), Chars("-"), Chars("/"), Chars("*"), Chars("="), Chars("!"),
     Chars("<"), Chars(">"), Chars("&"), Chars("|"), Chars("$"),
     Chars("!="), Chars("<="), Chars(">=")}

OperationWords == OperatorTexts \cup DOMAIN KEYWORDS

\* The lists of at most n operands.
RECURSIVE OperandLists(_)
OperandLists(n) ==
    IF n = 0 THEN {<<>>}
    ELSE OperandLists(n - 1) \cup
         {Append(xs, x) : xs \in OperandLists(n - 1), x \in Operands}

\* Operands and an operation, each followed by a space.
OperationSources ==
    {Join(Append(xs, o), <<" ">>) : xs \in OperandLists(MaxOperands), o \in OperationWords}

\* A word in its lexical context: what precedes it and what follows it.
LexicalSources ==
    {pre \o word \o follow :
        pre \in {Chars(""), Chars("1 "), Chars("1 2 "), Chars("true "), Chars("1 2 != "),
                 Chars("1\n")},
        word \in OperatorTexts \cup
                 {Chars("true"), Chars("false"), Chars("dup"), Chars("12"), Chars("-3"),
                  Chars("1.5"), Chars("\"a b\"")},
        follow \in {Chars(""), Chars(" "), Chars(" 3"), Chars("3"), Chars("="),
                    Chars("false"), Chars(" +"), Chars("\n4"), Chars("\t5 <")}}

\* Definitions and what uses them.
DefinitionSources ==
    {def \o use :
        def \in {Chars("@f { 1 2 + } "), Chars("@f { 1 } "), Chars("@b "), Chars("@b  "),
                 Chars("@f { \"a\" } @b  "), Chars("@b  @f { b } "),
                 Chars("@f { 1 } @f { 2 } "), Chars("@b  @b  "), Chars("@f { f } "),
                 Chars("1 @f { 2 + } "), Chars("true @f { 1 } ")},
        use \in {Chars(""), Chars("f $"), Chars("f"), Chars("b"), Chars("f b"),
                 Chars("f $ f $"), Chars("{ f } $"), Chars("{ f } $ $"), Chars("f gate"),
                 Chars("true { f } gate"), Chars("true { f false } loop"), Chars("g"),
                 Chars("b type"), Chars("f type"), Chars("f f ="), Chars("b b =")}}

\* The programs of the documentation, and texts with comments, blocks,
\* conditionals, loops, several lines and errors.
Programs ==
    {Chars("2 2 + print"), Chars("2 2 +"),
     Chars("\"hello \" \"world\" + print"), Chars("\"hello \" \"world\" +"),
     Chars("@bare bare type"), Chars("@bare  bare type"),
     Chars("{ { 1 } }"), Chars("{ true { 1 } gate }"), Chars("{ { 1 }  }"),
     Chars("{ true { 1 }  gate } $"),
     Chars("@f { 1 2 + } f $"),
     Chars("1 <=2"), Chars("1 2 <="), Chars("1 2 <3"), Chars("true !false"),
     Chars("true false != true"), Chars("1 2 >= false"),
     Chars("; c ; 1"), Chars(";c"), Chars("1 ;c; 2 +"), Chars("1 ;c\n; 2"),
     Chars("}"), Chars("1 }"), Chars("{ 1"), Chars("{ 1 } }"), Chars("\"ab"),
     Chars("\"a\\n\" print"), Chars("\"a\\q\""), Chars("1.2.3"), Chars("1x"), Chars("12 -3 +"),
     Chars("1 exit 2"), Chars("{ 1 exit 2 } $ 3"), Chars("1 2 swap"), Chars("1 2 3 rot"),
     Chars("true { 1 } gate"), Chars("false { 1 } gate"), Chars("1 { 1 } gate"),
     Chars("true 1 gate"), Chars("true { false } loop"), Chars("{ false } loop"), Chars("true { 1 } loop"),
     Chars("3 true { 1 - dup 0 > } loop"), Chars("1 loop"),
     Chars("1\n2 +"), Chars("1 2\n!= 3"), Chars("{ 1\n2 } $ +"), Chars("@f\n{ 1 } f"),
     Chars("@f{ 1 }"), Chars("@ "), Chars("@"), Chars("@f"), Chars("_x"), Chars("a$"),
     Chars("#")}

\* Loops, conditionals, rotations and texts with `exit`.
ControlSources ==
    {Chars("3 true { dup print 1 - dup 0 > } loop"), Chars("false { 1 print false } loop"),
     Chars("true { 1 print false } loop"), Chars("true true { 1 print } loop"),
     Chars("\"x\" { 1 } loop"), Chars("true { 1 } loop 2"),
     Chars("true { 2 } { 1 } gate"), Chars("false { 2 } { 1 } gate"),
     Chars("5 true { 1 + } gate"), Chars("5 false { 1 + } gate"),
     Chars("5 false { 2 + } { 1 + } gate"), Chars("{ 1 } gate"), Chars("{ 2 } { 1 } gate"),
     Chars("1 { 2 } { 1 } gate"), Chars("true { 1 } gate 2"),
     Chars("1 2 3 rot"), Chars("1 2 3 nrot"), Chars("1 2 3 rot nrot"),
     Chars("1 2 3 nrot rot"), Chars("0 1 2 3 rot"), Chars("0 1 2 3 nrot"), Chars("1 2 rot"),
     Chars("1 2 nrot"),
     Chars("exit"), Chars("1 exit"), Chars("1 exit #"), Chars("1 exit }"), Chars("1 exit g"),
     Chars("1 exit\n2"), Chars("{ 1 exit # } $ 3"), Chars("{ 1 exit g } 3"),
     Chars("@f { 1 exit 2 } f $ 3"), Chars("@f { exit } f"), Chars("{ { 1 exit 2 }  $ 3 } $"),
     Chars("1 exits"), Chars("drop"), Chars("1 drop"), Chars("1 \"a\" <")}

\* A stack of three Integers, an index and PICK or ROLL.
IndexSources ==
    {Chars("10 20 30 ") \o n \o Chars(" ") \o kw :
        n \in {Chars("-1"), Chars("0"), Chars("1"), Chars("2"), Chars("3"), Chars("4"),
               Chars("true"), Chars("1.0")},
        kw \in {Chars("pick"), Chars("roll"), Chars("pick +"), Chars("roll -")}}

\* Arithmetic on texts and on the largest Integer.
ArithmeticSources ==
    {Chars("\"ab\" 3 *"), Chars("3 \"ab\" *"), Chars("\"ab\" 0 *"), Chars("\"ab\" 1 /"),
     Chars("\"ab\" 2 /"), Chars("\"ab\" 3 /"), Chars("\"ab\" 0 /"), Chars("1 \"ab\" /"),
     Chars("-1 \"ab\" *"), Chars("\"ab\" -1 *"), Chars("2147483647 1 +"),
     Chars("2147483647 -1 +"), Chars("0 1 -"), Chars("1 0 /")}

\* Identifiers read before, inside and after the declaration of their name.
IdentifierSources ==
    {Chars("f @f { 1 } "), Chars("{ f } @f { 1 } "), Chars("@f { g } @g { 1 } f $ $"),
     Chars("@g { 1 } @f { g } f $ $"), Chars("@f { 1 } { { f }  $ } $ $"),
     Chars("@f { { f }  } f $ $ $"), Chars("@f { 1 } fg"), Chars("@f { 1 } F"),
     Chars("@f { @g { 2 }  g } g $ f $ $"), Chars("{ @g { 2 }  } g $")}

\* Names declared twice: bare and with a body, side by side and nested.
DuplicateSources ==
    {Chars("@f { @f { 1 }  } "), Chars("@f { 1 } { @f { 2 }  } "),
     Chars("@f { @g { 1 }  } @g { 2 } "), Chars("@f { 1 } @f"), Chars("@f  @f { 1 } "),
     Chars("@f { 1 } @g { @f  } "), Chars("@f { } @f { 1 } "), Chars("@f { @f  } "),
     Chars("@f { 1 } @g { 2 } @h  f $ g $ h")}

\* Errors inside blocks that `$`, GATE and LOOP run, with tokens after them.
FailingSources ==
    {Chars("1 print { 2 print + 3 print } $ 4 print"), Chars("{ { 1 + }  $ 2 } $ 3"),
     Chars("true { { + }  $ true } loop 5"), Chars("true { 1 { + }  $ 9 } gate 4"),
     Chars("true { 1 } { { drop rot }  $ 9 } gate 4"),
     Chars("true { true { 0 pick }  loop 8 } loop 9"),
     Chars("true { 7 print \"x\" } loop 9 print"),
     Chars("{ 1 print }  $ 2 print + 3 print")}

\* Texts with a block that the text ends in, or with a '}' that closes no block.
UnclosedSources ==
    {Chars("{ 1 2"), Chars("{"), Chars("{ "), Chars("{\n1 2 +\n"), Chars("{ { 1 }  "),
     Chars("{ 1 \\} "), Chars("1 print { 2 print"), Chars("@f { 1"), Chars("@f {"),
     Chars("@f { 1 } f $ @g { f"), Chars("}"), Chars("1 }"), Chars("{ 1 } }"),
     Chars("1 print } 2 print"), Chars("@f { 1 } } f"), Chars("{ { 1 }  } } ")}

\* Texts whose first error is a numeral with a second '.'.
NumeralSources ==
    {Chars("1.2.3"), Chars(" 1.2.3"), Chars("1 1.2.3"), Chars("-1.2.3"), Chars("1..2"),
     Chars(".5."), Chars("12.5.1 +"), Chars("1 +\n 2.5.1"), Chars("\"a\" 1.2.3"),
     Chars("print 1.2.3"), Chars("1 2 + 1.2.3"), Chars("{ 1 } 1.2.3"),
     Chars("@f { 1 } 1.2.3"), Chars("true 1.2.3"), Chars("1 2 != 1.2.3"),
     Chars("@f { 1 } f 1.2.3"), Chars("{ 1.2.3 } ")}

\* Sums that are printed, and PRINT with nothing to print.
PrintSources ==
    {Chars("0 0 + print"), Chars("1 -3 + print"), Chars("12 -3 + print"),
     Chars("2147483646 1 + print"), Chars("-2147483648 0 + print"),
     Chars("-2147483647 -1 + print"), Chars("print"), Chars("print print 1"),
     Chars("1 print print"), Chars("{ print }  $ 2 print print")}

\* Blocks and function bodies whose tokens are one-digit numerals, each
\* written once in the text.
BlockSources ==
    {Chars("{ 1 2 } "), Chars("{\n1 2 } "), Chars("1 { 2 } "), Chars("@f { 1 2 }  "),
     Chars("{ 1\n 2 } "), Chars("{ 1\n2\n 3 } "), Chars("{ { 1 }  2 } "),
     Chars("{\n\n1 } "), Chars("1 2 + { 3 } $"), Chars("@f {\n1\n2 }  f $")}

\* Functions whose body refers to the function itself, run one or more times.
SelfSources ==
    {Chars("@f { f }  f $"), Chars("@f { 1 f }  f $ $"), Chars("@f { f 1 }  f $ drop $"),
     Chars("@f { { f }  }  f $ $"), Chars("@f { f exit 2 }  f $ $"),
     Chars("@f { 1 }  @g { f g }  g $ $"), Chars("@f { @g { f g }  g }  f $ $ $"),
     Chars("@f { 1 f }  f $ $ drop +")}

\* Comparisons of a value with itself and with a value written the same way.
EqualitySources ==
    {Chars("{ 1 } dup ="), Chars("{ 1 } dup !="), Chars("{ } dup ="), Chars("@t  t dup ="),
     Chars("@t  @u  t u ="), Chars("@t  t \"t\" ="), Chars("\"a\" dup !="),
     Chars("1 1.0 ="), Chars("0.5 dup ="), Chars("true 1 !="), Chars("@f { 1 }  f dup ="),
     Chars("1 dup <="), Chars("true dup >="), Chars("@t  t dup <="), Chars("1 1.0 >=")}

\* Functions declared with a body and run by name: a body of tokens, a body
\* with none, and bodies whose text is a comment or comes after an exit.
BodySources ==
    {Chars("@f { 1 }  f $"), Chars("@f { }  f $"), Chars("@f { exit 1 }  f $"),
     Chars("@f { ;c; }  f $"), Chars("@f { 1 exit 2 }  f $"), Chars("@f { }  f")}

Sources ==
    BodySources \cup EqualitySources \cup SelfSources \cup BlockSources \cup PrintSources \cup OperationSources \cup LexicalSources \cup DefinitionSources \cup Programs \cup
    ControlSources \cup IndexSources \cup ArithmeticSources \cup FailingSources \cup
    IdentifierSources \cup DuplicateSources \cup UnclosedSources \cup NumeralSources

\* run_string(source)
RunStringInit ==
    /\ entry = "run_string"
    /\ source \in Sources
    /\ lexer = <<LexFrame(source, TokenPosition(1, 1), "top", NoPosition, <<>>)>>
    /\ functions = EmptyTable
    /\ tokens = <<>>
    /\ calls = <<>>
    /\ stack = <<>>
    /\ output = <<>>
    /\ status = "tokenize"
    /\ error = NoError
    /\ value = None /\ buffer = <<>> /\ decoded = None /\ library = <<>>

\* Every Operation and every Keyword.
Operations ==
    {SimpleOperators[c] : c \in DOMAIN SimpleOperators} \cup
    {EqualsOperators[c][i] : c \in DOMAIN EqualsOperators, i \in {1, 2}}

Keywords == {KEYWORDS[w] : w \in DOMAIN KEYWORDS} \cup UnusedKeywords

\* The tokens of kinds, on one line.
MakeTokens(kinds) == [i \in 1..Len(kinds) |-> Token_new(kinds[i], 1, i)]

ExecValues ==
    {Integer(1), Integer(2), Float(1, 2), Boolean(TRUE), Boolean(FALSE),
     String(Chars("ab")), Block(MakeTokens(<<Literal(Integer(1))>>))}

\* The stacks of at most n values.
RECURSIVE Stacks(_)
Stacks(n) ==
    IF n = 0 THEN {<<>>}
    ELSE Stacks(n - 1) \cup {Append(data, v) : data \in Stacks(n - 1), v \in ExecValues}

\* A function table with a block-bodied function and a tag.
ExecTable ==
    insert(insert(EmptyTable, Chars("f"), MakeTokens(<<Literal(Integer(1))>>)),
           Chars("b"), <<>>)

ExecKinds ==
    {Op(o) : o \in Operations} \cup {Keyword(kw) : kw \in Keywords} \cup
    {Literal(Integer(1)), Literal(Function(Chars("f"))), Literal(Function(Chars("b"))),
     Literal(Function(Chars("g")))}

ExecPrograms ==
    {MakeTokens(<<kind>>) : kind \in ExecKinds} \cup
    {MakeTokens(<<Keyword("EXIT"), Literal(Integer(1))>>)}

\* Token sequences with EXIT tokens, which no source text gives, each with
\* the stack it leaves when it starts on the empty stack: EXIT in a block that
\* `$` runs, in the body of a loop, in a branch, and at the top.
ExitPrograms ==
    (MakeTokens(<<Literal(Block(MakeTokens(<<Literal(Integer(1)), Keyword("EXIT"),
                                             Literal(Integer(2))>>))),
                  Op("Run"), Literal(Integer(3))>>) :> <<Integer(1), Integer(3)>>) @@
    (MakeTokens(<<Literal(Boolean(TRUE)),
                  Literal(Block(MakeTokens(<<Literal(Integer(5)), Literal(Boolean(FALSE)),
                                             Keyword("EXIT"), Literal(Boolean(TRUE))>>))),
                  Keyword("LOOP"), Literal(Integer(7))>>) :> <<Integer(5), Integer(7)>>) @@
    (MakeTokens(<<Literal(Boolean(FALSE)), Literal(Boolean(TRUE)),
                  Literal(Block(MakeTokens(<<Keyword("EXIT"), Literal(Integer(2))>>))),
                  Keyword("LOOP"), Literal(Integer(7))>>) :> <<Integer(7)>>) @@
    (MakeTokens(<<Literal(Boolean(TRUE)),
                  Literal(Block(MakeTokens(<<Literal(Integer(1)), Keyword("EXIT"),
                                             Literal(Integer(2))>>))),
                  Keyword("GATE"), Literal(Integer(3))>>) :> <<Integer(1), Integer(3)>>) @@
    (MakeTokens(<<Literal(Integer(1)), Keyword("EXIT"), Literal(Integer(2))>>) :>
        <<Integer(1)>>)

ExecSequences == DOMAIN ExitPrograms

\* Zero, negative and extreme Integers, and the texts they meet.
ExtremeIntegers == {Integer(0), Integer(1), Integer(-1), Integer(2), Integer(I32Max), Integer(I32Min)}

ExtremeTexts == {String(<<>>), String(Chars("ab"))}

\* Two operands, one of them an Integer of ExtremeIntegers: the repetition
\* of a text that is not empty I32Max times is left out.
ExtremeStacks ==
    {<<a, b>> : a, b \in ExtremeIntegers} \cup
    {st \in {<<a, b>> : a, b \in ExtremeIntegers \cup ExtremeTexts} :
        /\ {st[1].k, st[2].k} = {"Integer", "String"}
        /\ ~(st[1].k = "Integer" /\ st[1].i = I32Max /\ st[2].s # <<>>)}

\* One arithmetic operator, PICK or ROLL.
ExtremePrograms ==
    {MakeTokens(<<kind>>) :
        kind \in {Op("Add"), Op("Subtract"), Op("Multiply"), Op("Divide"),
                  Keyword("PICK"), Keyword("ROLL")}}

\* A program of ExtremePrograms on a stack of ExtremeStacks.  The quotient of
\* two Integers is a quotient of f32, which holds I32Max and I32Min only
\* rounded: these quotients are left out.
ExtremeInputs ==
    {in \in ExtremePrograms \X ExtremeStacks :
        ~(/\ in[1][1].kind = Op("Divide")
          /\ in[2][1].k = "Integer" /\ in[2][2].k = "Integer"
          /\ {in[2][1].i, in[2][2].i} \cap {I32Max, I32Min} # {})}

\* execute(&tokens, &mut stack, &functions)
\* A keyword that execute has no arm for, and a token after it.
UnusedPrograms ==
    {MakeTokens(<<Keyword(kw), Literal(Integer(1))>>) : kw \in UnusedKeywords} \cup
    {MakeTokens(<<Literal(Block(MakeTokens(<<Keyword("STRLEN"), Keyword("INPUT")>>))),
                  Op("Run"), Keyword("USE"), Keyword("DEPTH")>>)}

ExecuteInit ==
    /\ entry = "execute"
    /\ source = <<>>
    /\ lexer = <<>>
    /\ functions = ExecTable
    /\ \/ tokens \in ExecPrograms /\ stack \in Stacks(MaxDepth)
       \/ tokens \in ExecSequences /\ stack = <<>>
       \/ tokens \in UnusedPrograms /\ stack \in Stacks(1)
       \/ \E in \in ExtremeInputs : tokens = in[1] /\ stack = in[2]
    /\ calls = <<Call(tokens)>>
    /\ output = <<>>
    /\ status = "execute"
    /\ error = NoError
    /\ value = None /\ buffer = <<>> /\ decoded = None /\ library = <<>>

Init == RunStringInit \/ ExecuteInit

Next == tokenize \/ execute

Spec == Init /\ [][Next]_vars

\* Token sequences that run blocks: a block that copies itself with
\* DUPLICATE, OVER, PICK or TUCK and runs the copy, blocks inside one another,
\* branches, and loops.
RunPrograms ==
    LET block(kinds) == Literal(Block(MakeTokens(kinds)))
        one == Literal(Integer(1))
        dup == <<Keyword("DUPLICATE"), Op("Run")>>
        over == <<Keyword("OVER"), Op("Run")>>
        pick == <<one, Keyword("PICK"), Op("Run")>>
        tuck == <<Keyword("DROP"), one, one, Keyword("ROLL"), Keyword("TUCK"), Op("Run")>>
    IN  {MakeTokens(p) : p \in
            {<<block(dup)>> \o dup, <<block(over), one>> \o over,
             <<block(pick)>> \o pick, <<one, block(tuck), Keyword("TUCK"), Op("Run")>>,
             <<block(<<Keyword("DUPLICATE"), Literal(Boolean(TRUE)), Keyword("NROT"),
                       Keyword("GATE")>>),
               Keyword("DUPLICATE"), Op("Run")>>,
             <<block(<<one>>), Keyword("DUPLICATE"), Op("Run"), Op("Run")>>,
             <<block(<<Op("Run")>>), Op("Run")>>,
             <<block(<<one>>), block(<<Op("Run")>>), Op("Run")>>,
             <<block(<<block(<<block(<<one, Op("Run")>>), Op("Run")>>), Op("Run")>>),
               Op("Run"), one>>,
             <<block(<<block(<<one>>), Op("Run"), one, Op("Add")>>), Op("Run")>>,
             <<Literal(Boolean(TRUE)), block(<<block(<<one>>), Op("Run")>>),
               Keyword("GATE"), one>>,
             <<Literal(Boolean(FALSE)), block(<<one>>), block(<<Op("Add")>>),
               Keyword("GATE")>>,
             <<Literal(Boolean(TRUE)), block(<<Literal(Boolean(TRUE))>>), Keyword("LOOP")>>,
             <<Literal(Boolean(TRUE)), block(<<one, Literal(Boolean(FALSE))>>),
               Keyword("LOOP"), Keyword("PRINT"), Keyword("EXIT")>>}}

\* execute(&tokens, &mut stack, &function_table)
RunInit ==
    /\ entry = "execute"
    /\ source = <<>>
    /\ lexer = <<>>
    /\ functions = ExecTable
    /\ \/ tokens \in ExecPrograms /\ stack \in Stacks(1)
       \/ tokens \in RunPrograms /\ stack = <<>>
    /\ calls = <<Call(tokens)>>
    /\ output = <<>>
    /\ status = "execute"
    /\ error = NoError
    /\ value = None /\ buffer = <<>> /\ decoded = None /\ library = <<>>

\* execute runs to its end: no step of it is put off for ever.
RunSpec == RunInit /\ [][execute]_vars /\ WF_vars(execute)

-----------------------------------------------------------------------------
(* Library compilation: compile_string tokenizes the source, keeps the      *)
(* function table, and writes it to the library file.                       *)

VERSION == 50

\* b"STKL"
Magic == as_bytes(Chars("STKL"))

\* The orders in which a HashMap built with HashMap::new() can yield the
\* entries of a table: the order follows the hasher's keys, which are chosen
\* anew for every map, so every order of the names is one a run can take.
IterationOrders(table) ==
    {order \in [1..Cardinality(DOMAIN table) -> DOMAIN table] :
        \A i, j \in 1..Cardinality(DOMAIN table) : order[i] = order[j] => i = j}

\* One pass of the body of the loop over the table: the key's length and
\* bytes, then the number of tokens of the body and their bytes.
library_entry(name, body) ==
    u32_to_be_bytes(Len(as_bytes(name))) \o as_bytes(name)
        \o u32_to_be_bytes(Len(body)) \o tokens_to_bytes(body)

RECURSIVE library_entries(_, _)
library_entries(table, order) ==
    IF order = <<>> THEN <<>>
    ELSE library_entry(Head(order), table[Head(order)])
            \o library_entries(table, Tail(order))

\* The header: the magic number, the version and the number of entries.
library_header(table) ==
    Magic \o u32_to_be_bytes(VERSION) \o u32_to_be_bytes(Cardinality(DOMAIN table))

\* How many times compile_string is called on the source.
MaxCompiles == 2

\* Sources that declare no name, one name, and two or more names.
CompileSources ==
    {Chars("@a  @b  "), Chars("@f { 1 }  @g { 2 }  "), Chars("@f { 1 }  "),
     Chars("1 2 +"), Chars("@a  @b  @c  "), Chars("@f { \"s\" ;c; }  @t  f t != _x"),
     Chars("@a  @b  }"), Chars("@g { a_b 1.5 = }  @a_b  -2"), Chars("@f { g }  @g { f }  "),
     Chars("@a  { 1 }  @b  ")}

\* compile_string(source, libname)
CompileInit ==
    /\ entry = "compile_string"
    /\ source \in CompileSources
    /\ lexer = <<LexFrame(source, TokenPosition(1, 1), "top", NoPosition, <<>>)>>
    /\ functions = EmptyTable
    /\ tokens = <<>>
    /\ calls = <<>>
    /\ stack = <<>>
    /\ output = <<>>
    /\ status = "tokenize"
    /\ error = NoError
    /\ value = None /\ buffer = <<>> /\ decoded = None /\ library = <<>>

\* The rest of compile_string after tokenize returned Ok: the buffer is
\* filled with the header and the entries in the order the table yields
\* them, and written to the file.
compile_string_write ==
    /\ status = "compile"
    /\ \E order \in IterationOrders(functions) :
          buffer' = library_header(functions) \o library_entries(functions, order)
    /\ library' = Append(library, buffer')
    /\ status' = "compiled"
    /\ UNCHANGED <<value, decoded, entry, source, lexer, functions, tokens, calls, stack,
                   output, error>>

\* compile_string is called on the same source once more, with a new table.
compile_string_again ==
    /\ status = "compiled" /\ Len(library) < MaxCompiles
    /\ lexer' = <<LexFrame(source, TokenPosition(1, 1), "top", NoPosition, <<>>)>>
    /\ functions' = EmptyTable
    /\ buffer' = <<>>
    /\ status' = "tokenize"
    /\ UNCHANGED <<library, value, decoded, entry, source, tokens, calls, stack, output, error>>

CompileNext == tokenize \/ compile_string_write \/ compile_string_again

CompileSpec == CompileInit /\ [][CompileNext]_vars

\* The most bytes that follow an encoding in a buffer.
MaxExtra == 2

\* The buffers of at most n bytes that may follow an encoding.
RECURSIVE Extra(_)
Extra(n) ==
    IF n = 0 THEN {<<>>}
    ELSE Extra(n - 1) \cup {Append(bs, b) : bs \in Extra(n - 1), b \in {0, 1, 5, 255}}

ExtraBytes == Extra(MaxExtra)

CodecTexts == {<<>>, Chars("ab"), Chars("a \"b\"\n~"), Chars("Integer")}

\* One token of every kind, at positions of one and of several bytes.
CodecKinds ==
    {Op(OperationTags[i]) : i \in 1..Len(OperationTags)} \cup
    {Keyword(KeywordTags[i]) : i \in 1..Len(KeywordTags)} \cup
    {Literal(Integer(-2)), Literal(Boolean(TRUE)), Literal(String(Chars("ab"))),
     Literal(Tag(Chars("f"))), Literal(Function(Chars("f"))), Literal(Float(1, 2)),
     Literal(Block(<<>>))}

CodecBlocks ==
    {Block(<<>>)} \cup
    {Block(<<Token_new(kind, 1, 2)>>) : kind \in CodecKinds} \cup
    {Block(<<Token_new(Literal(Integer(1)), 1, 3), Token_new(Literal(Integer(2)), 1, 5),
             Token_new(Op("Add"), 1, 7)>>),
     Block(<<Token_new(Literal(Block(<<Token_new(Literal(String(Chars("a"))), 2, 7),
                                       Token_new(Keyword("DUPLICATE"), 300, 70000)>>)),
                       1, 3),
             Token_new(Op("Run"), 1, 9), Token_new(Literal(Boolean(FALSE)), 1, 11)>>),
     Block(<<Token_new(Literal(Block(<<Token_new(Literal(Block(<<Token_new(
                 Literal(Tag(Chars("t"))), 3, 1)>>)), 2, 1)>>)), 1, 1),
             Token_new(Keyword("GATE"), 1, 20)>>)}

\* Values of every kind.
CodecValues ==
    {Integer(i) : i \in {0, 1, -1, 300, -65536, I32Max, I32Min}} \cup
    {Boolean(TRUE), Boolean(FALSE)} \cup
    {String(s) : s \in CodecTexts} \cup {Tag(s) : s \in CodecTexts} \cup
    {Function(Chars("f"))} \cup
    {Float(0, 1), Float(1, 2), Float(-3, 1), Float(5, 4), Float(1, 0), Float(0, 0)} \cup
    CodecBlocks

\* to_bytes(&value)
CodecInit ==
    /\ entry = "to_bytes"
    /\ value \in CodecValues
    /\ buffer = <<>>
    /\ decoded = None
    /\ library = <<>>
    /\ source = <<>>
    /\ lexer = <<>>
    /\ functions = EmptyTable
    /\ tokens = <<>>
    /\ calls = <<>>
    /\ stack = <<>>
    /\ output = <<>>
    /\ status = "to_bytes"
    /\ error = NoError

\* The codec as a machine: a value is encoded, the buffer is cut short or
\* followed by other bytes, and the buffer is decoded.
value_to_bytes ==
    /\ status = "to_bytes"
    /\ buffer' = Value_to_bytes(value)
    /\ status' = "encoded"
    /\ UNCHANGED <<library, value, decoded, entry, source, lexer, functions, tokens, calls, stack,
                   output, error>>

buffer_cut ==
    /\ status = "encoded"
    /\ \E n \in 0..(Len(buffer) - 1) : buffer' = SubSeq(buffer, 1, n)
    /\ status' = "from_bytes"
    /\ UNCHANGED <<library, value, decoded, entry, source, lexer, functions, tokens, calls, stack,
                   output, error>>

buffer_extended ==
    /\ status = "encoded"
    /\ \E extra \in ExtraBytes : buffer' = buffer \o extra
    /\ status' = "from_bytes"
    /\ UNCHANGED <<library, value, decoded, entry, source, lexer, functions, tokens, calls, stack,
                   output, error>>

value_from_bytes ==
    /\ status = "from_bytes"
    /\ decoded' = Value_from_bytes(buffer)
    /\ status' = "decoded"
    /\ UNCHANGED <<library, value, buffer, entry, source, lexer, functions, tokens, calls, stack,
                   output, error>>

CodecNext == value_to_bytes \/ buffer_cut \/ buffer_extended \/ value_from_bytes

CodecSpec == CodecInit /\ [][CodecNext]_vars

-----------------------------------------------------------------------------
(* The properties.                                                          *)

Kinds(toks) == [i \in 1..Len(toks) |-> toks[i].kind]

\* run_string got past the tokenizer.
Tokenized == entry = "run_string" /\ status \in {"execute", "ok", "runtime_error", "panic"}

IsStringLiteral(token) == token.kind.t = "Literal" /\ token.kind.lit.k = "String"

\* C1: Add on two Strings concatenates them in textual order: a program of
\* two String literals A and B and a '+' leaves the String A followed by B.
C1_AddConcatenatesInTextualOrder ==
    (/\ entry = "run_string" /\ status = "ok" /\ Len(tokens) = 3
     /\ IsStringLiteral(tokens[1]) /\ IsStringLiteral(tokens[2])
     /\ tokens[3].kind = Op("Add"))
    => stack = <<String(tokens[1].kind.lit.s \o tokens[2].kind.lit.s)>>

\* The operations whose operand order shows in the result.
OrderedOperations ==
    {"Subtract", "Divide", "Lesser", "Greater", "LesserEqual", "GreaterEqual"}

IsNumber(v) == v.k = "Integer" \/ (v.k = "Float" /\ v.d > 0)

Numerator(v) == IF v.k = "Integer" THEN v.i ELSE v.n

Denominator(v) == IF v.k = "Integer" THEN 1 ELSE v.d

\* v is the number n / d.
IsRatio(v, n, d) == IsNumber(v) /\ Numerator(v) * d = n * Denominator(v)

\* The order of two numbers or two Booleans: -1, 0 or 1.
Order(A, B) ==
    LET a == IF A.k = "Boolean" THEN (IF A.b THEN 1 ELSE 0)
             ELSE Numerator(A) * Denominator(B)
        b == IF B.k = "Boolean" THEN (IF B.b THEN 1 ELSE 0)
             ELSE Numerator(B) * Denominator(A)
    IN  IF a < b THEN -1 ELSE IF a = b THEN 0 ELSE 1

\* A op B is defined by arithmetic alone: two numbers (a divisor other than
\* 0, an Integer difference within i32) or, for an ordering, two Booleans.
Defined(op, A, B) ==
    \/ /\ IsNumber(A) /\ IsNumber(B)
       /\ op = "Divide" => Numerator(B) # 0
       /\ (op = "Subtract" /\ A.k = "Integer" /\ B.k = "Integer") =>
             IF B.i >= 0 THEN A.i >= I32Min + B.i ELSE A.i <= I32Max + B.i
    \/ /\ A.k = "Boolean" /\ B.k = "Boolean"
       /\ op \notin {"Subtract", "Divide"}

\* res is A op B.
IsResult(op, A, B, res) ==
    CASE op = "Subtract" ->
            /\ res.k = IF A.k = "Integer" /\ B.k = "Integer" THEN "Integer" ELSE "Float"
            /\ IsRatio(res, Numerator(A) * Denominator(B) - Numerator(B) * Denominator(A),
                       Denominator(A) * Denominator(B))
      [] op = "Divide" ->
            /\ res.k = "Float"
            /\ IsRatio(res, Numerator(A) * Denominator(B), Denominator(A) * Numerator(B))
      [] op = "Lesser" -> res = Boolean(Order(A, B) < 0)
      [] op = "Greater" -> res = Boolean(Order(A, B) > 0)
      [] op = "LesserEqual" -> res = Boolean(Order(A, B) <= 0)
      [] op = "GreaterEqual" -> res = Boolean(Order(A, B) >= 0)

\* C2: for Subtract, Divide, Lesser, Greater, LesserEqual and GreaterEqual,
\* with A pushed first and B on top, the step of the operation removes both
\* operands and pushes the one result A op B, and leaves the stack below them
\* and the run as they were.
C2_OperandOrder ==
    [][(/\ IsOp(OrderedOperations) /\ Len(stack) >= 2
        /\ Defined(Token.kind.op, stack[Len(stack) - 1], stack[Len(stack)]))
       => /\ Len(stack') = Len(stack) - 1
          /\ SubSeq(stack', 1, Len(stack) - 2) = SubSeq(stack, 1, Len(stack) - 2)
          /\ IsResult(Token.kind.op, stack[Len(stack) - 1], stack[Len(stack)],
                      stack'[Len(stack')])
          /\ status' = "execute"]_vars

\* C2, its case: `1 2 -` has run and left -1, and `0.5 2 /`, 1/4.
C2_Witness ==
    /\ status = "ok"
    /\ \/ Kinds(tokens) = <<Literal(Integer(1)), Literal(Integer(2)), Op("Subtract")>>
          /\ stack = <<Integer(-1)>>
       \/ Kinds(tokens) = <<Literal(Float(1, 2)), Literal(Integer(2)), Op("Divide")>>
          /\ stack = <<Float(1, 4)>>

IsFunctionLiteral(token) == token.kind.t = "Literal" /\ token.kind.lit.k = "Function"

\* C3: executing the tokens of the tokenizer never leaves a Function value in
\* a stack slot: the value a Function literal has just pushed is Tag(name)
\* when the body of name in the function table is empty and the Block of that
\* body otherwise.
C3_NoFunctionOnStack ==
    entry = "run_string" =>
        /\ \A i \in 1..Len(stack) : stack[i].k # "Function"
        /\ (/\ status = "execute" /\ calls # <<>> /\ Cur.pc > 1
            /\ IsFunctionLiteral(Cur.tokens[Cur.pc - 1]))
           => LET name == Cur.tokens[Cur.pc - 1].kind.lit.fn IN
              /\ stack # <<>>
              /\ Last(stack) = IF functions[name] = <<>> THEN Tag(name)
                               ELSE Block(functions[name])

\* C3, its case: the references to a function with a body and to a tag have
\* been executed.
C3_Witness ==
    /\ entry = "run_string" /\ status = "ok"
    /\ \E i \in 1..Len(tokens) : IsFunctionLiteral(tokens[i])
    /\ Len(stack) = 2
    /\ stack[1].k = "Block" /\ stack[1].body # <<>>
    /\ stack[2] = Tag(Chars("b"))

\* C4: after the bare declaration `@name` and one whitespace the text that
\* follows is tokenized in full: `@bare bare type` gives the tokens
\* Function(bare) and TYPE, and running them leaves exactly Tag("bare").
C4_BareDeclarationThenText ==
    (entry = "run_string" /\ source = Chars("@bare bare type")) =>
        /\ status # "tokenizer_error"
        /\ Tokenized =>
              Kinds(tokens) = <<Literal(Function(Chars("bare"))), Keyword("TYPE")>>
        /\ status = "ok" => stack = <<Tag(Chars("bare"))>>

\* The token is a Block whose only token is the Integer 1.
IsBlockOfOne(token) ==
    /\ token.kind.t = "Literal" /\ token.kind.lit.k = "Block"
    /\ Kinds(token.kind.lit.body) = <<Literal(Integer(1))>>

\* C5: blocks nest when one whitespace follows the inner '}': `{ { 1 } }`
\* and `{ true { 1 } gate }` tokenize to an outer Block that holds the inner
\* Block of the Integer 1.
C5_BlocksNest ==
    (entry = "run_string"
        /\ source \in {Chars("{ { 1 } }"), Chars("{ true { 1 } gate }")}) =>
        /\ status # "tokenizer_error"
        /\ Tokenized =>
              /\ Len(tokens) = 1
              /\ tokens[1].kind.t = "Literal" /\ tokens[1].kind.lit.k = "Block"
              /\ \E i \in 1..Len(tokens[1].kind.lit.body) :
                    IsBlockOfOne(tokens[1].kind.lit.body[i])

\* Programs that define f with a block and then run it: the tokens of the
\* body, the tokens of the program and the stack it leaves.
DefineAndRun ==
    (Chars("@f { 1 2 + } f $") :>
        [body |-> <<Literal(Integer(1)), Literal(Integer(2)), Op("Add")>>,
         program |-> <<Literal(Function(Chars("f"))), Op("Run")>>,
         stack |-> <<Integer(3)>>]) @@
    (Chars("@f { 1 } f $") :>
        [body |-> <<Literal(Integer(1))>>,
         program |-> <<Literal(Function(Chars("f"))), Op("Run")>>,
         stack |-> <<Integer(1)>>]) @@
    (Chars("1 @f { 2 + } f $") :>
        [body |-> <<Literal(Integer(2)), Op("Add")>>,
         program |-> <<Literal(Integer(1)), Literal(Function(Chars("f"))), Op("Run")>>,
         stack |-> <<Integer(3)>>]) @@
    (Chars("@f { \"a\" } @b  f $") :>
        [body |-> <<Literal(String(Chars("a")))>>,
         program |-> <<Literal(Function(Chars("f"))), Op("Run")>>,
         stack |-> <<String(Chars("a"))>>])

\* C6: a definition with a block, `@f { ... }`, puts no token into the
\* sequence around it and registers the tokens of the body under f; `f $`
\* then runs the body on the caller's stack: `@f { 1 2 + } f $` leaves
\* exactly the Integer 3.
C6_DefinitionThenRun ==
    (entry = "run_string" /\ source \in DOMAIN DefineAndRun) =>
        /\ status \notin {"tokenizer_error", "runtime_error", "panic"}
        /\ Tokenized =>
              /\ Kinds(tokens) = DefineAndRun[source].program
              /\ Kinds(functions[Chars("f")]) = DefineAndRun[source].body
        /\ status = "ok" => stack = DefineAndRun[source].stack

\* C6, its case: `@f { 1 2 + } f $` has run.
C6_Witness ==
    /\ source = Chars("@f { 1 2 + } f $") /\ status = "ok"
    /\ stack = <<Integer(3)>>

\* The last step pushed an operator token in the current call of tokenize.
PushesOperator(ops) ==
    /\ Tokenizing /\ status' = "tokenize" /\ Len(lexer') = Len(lexer)
    /\ Len(Top'.tokens) = Len(Top.tokens) + 1
    /\ Top'.tokens[Len(Top'.tokens)].kind.t = "Op"
    /\ Top'.tokens[Len(Top'.tokens)].kind.op \in ops

\* C7: an operator token is accepted only when the character right after the
\* operator is whitespace or the end of the text.
C7_OperatorsNeedWhitespace ==
    [][PushesOperator(Operations) =>
          (Top'.code = <<>> \/ is_whitespace(Head(Top'.code)))]_vars

\* C8: '!', '<' or '>' followed by '=' is the two-character operator only
\* when whitespace or the end of the text follows the '='; any other
\* character there is an UnexpectedSymbol error that names it.  `1 <=2` fails
\* on '2', and `1 2 <=` leaves the Boolean true.
C8_TwoCharacterOperators ==
    /\ [](entry = "run_string" =>
            /\ source = Chars("1 <=2") =>
                  /\ status \in {"tokenize", "tokenizer_error"}
                  /\ status = "tokenizer_error" =>
                        (error.type = "UnexpectedSymbol" /\ error.ch = "2")
            /\ source = Chars("1 2 <=") =>
                  /\ status \in {"tokenize", "execute", "ok"}
                  /\ status = "ok" => stack = <<Boolean(TRUE)>>)
    /\ [][(/\ Tokenizing /\ Character \in {"!", "<", ">"}
           /\ Unread # <<>> /\ Head(Unread) = "=")
          => LET after == Tail(Unread) IN
             IF after = <<>> \/ is_whitespace(Head(after))
             THEN /\ PushesOperator({"NotEqual", "LesserEqual", "GreaterEqual"})
                  /\ Top'.code = after
             ELSE /\ status' = "tokenizer_error"
                  /\ error'.type = "UnexpectedSymbol" /\ error'.ch = Head(after)]_vars

\* C8, its case: `1 2 <=` has run and left true.
C8_Witness ==
    /\ source = Chars("1 2 <=") /\ status = "ok"
    /\ Kinds(tokens) = <<Literal(Integer(1)), Literal(Integer(2)), Op("LesserEqual")>>
    /\ stack = <<Boolean(TRUE)>>

\* A text of one line without strings, comments and blocks.
PlainLine ==
    \A i \in 1..Len(source) : source[i] \notin {"\n", "\r", "\"", ";", "{", "}"}

\* C9: every character the tokenizer consumes on a line moves the column by
\* exactly one, the second character of `!=`, `<=`, `>=` and the characters
\* of true, false and of references to functions included: between two
\* tokens the column is the 1-based place of the next unread character.
C9_ColumnCountsEveryCharacter ==
    (/\ entry = "run_string" /\ status = "tokenize" /\ Len(lexer) = 1
     /\ PlainLine /\ Top.code # <<>>) =>
        Top.position = TokenPosition(1, Len(source) - Len(Top.code) + 1)

\* The words of the text: where one starts, and where it ends.
IsWordStart(i) ==
    ~is_whitespace(source[i]) /\ (i = 1 \/ is_whitespace(source[i - 1]))

WordStarts == {i \in 1..Len(source) : IsWordStart(i)}

WordEnd(i) ==
    CHOOSE j \in i..Len(source) :
        /\ \A k \in i..j : ~is_whitespace(source[k])
        /\ j = Len(source) \/ is_whitespace(source[j + 1])

\* The word is one operator character, or a numeral: digits, with an
\* optional '-' before them and an optional fraction after them.
IsOperatorWord(i) ==
    WordEnd(i) = i /\ source[i] \in DOMAIN SimpleOperators \cup DOMAIN EqualsOperators

IsNumeralWord(i) ==
    LET first == IF source[i] = "-" THEN i + 1 ELSE i
        last == WordEnd(i)
        dots == {k \in first..last : source[k] = "."}
    IN  /\ first <= last
        /\ \A k \in first..last : is_ascii_digit(source[k]) \/ source[k] = "."
        /\ Cardinality(dots) <= 1
        /\ \A k \in dots : first < k /\ k < last

\* A text of one line made of numerals and one-character operators that
\* whitespace separates.
NumeralsAndOperators ==
    /\ \A i \in 1..Len(source) : source[i] \notin {"\n", "\r"}
    /\ \A i \in WordStarts : IsOperatorWord(i) \/ IsNumeralWord(i)

\* The token of the word at i.
IsTokenOf(token, i) ==
    /\ token.pos = TokenPosition(1, i)
    /\ IF IsOperatorWord(i)
       THEN token.kind = Op(IF source[i] \in DOMAIN SimpleOperators
                            THEN SimpleOperators[source[i]]
                            ELSE EqualsOperators[source[i]][1])
       ELSE /\ token.kind.t = "Literal"
            /\ token.kind.lit.k =
                  IF \E k \in i..WordEnd(i) : source[k] = "." THEN "Float" ELSE "Integer"

\* C10: for a text of one line made of numerals and one-character operators
\* separated by whitespace, the tokens are the words in the order of the
\* text, each at row 1 and at the 1-based column of its first character:
\* `2 2 +` gives tokens at (1,1), (1,3) and (1,5).
C10_TokensInOrderAtTheirColumns ==
    (Tokenized /\ NumeralsAndOperators) =>
        /\ Len(tokens) = Cardinality(WordStarts)
        /\ \A i \in WordStarts :
              IsTokenOf(tokens[Cardinality({j \in WordStarts : j <= i})], i)

\* C10, its case: `2 2 +` has been tokenized.
C10_Witness ==
    /\ Tokenized /\ source = Chars("2 2 +")
    /\ tokens = <<Token_new(Literal(Integer(2)), 1, 1),
                  Token_new(Literal(Integer(2)), 1, 3),
                  Token_new(Op("Add"), 1, 5)>>

\* The run ended with KeywordInvalidValues naming kw.
FailsWith(kw) ==
    status = "runtime_error" /\ error.type = "KeywordInvalidValues" /\ error.kw = kw

\* The step ends the run with KeywordInvalidValues at the token, naming kw.
FailsAtToken(kw) ==
    status' = "runtime_error" /\ error' = KeywordInvalidValues(Token.pos, kw)

\* Loops: what the bodies print, the stack at the end, and whether the loop
\* ends with KeywordInvalidValues(LOOP).
LoopPrograms ==
    (Chars("3 true { dup print 1 - dup 0 > } loop") :>
        [output |-> <<Integer(3), Integer(2), Integer(1)>>, stack |-> <<Integer(0)>>,
         fails |-> FALSE]) @@
    (Chars("false { 1 print false } loop") :>
        [output |-> <<>>, stack |-> <<>>, fails |-> FALSE]) @@
    (Chars("true { 1 print false } loop") :>
        [output |-> <<Integer(1)>>, stack |-> <<>>, fails |-> FALSE]) @@
    (Chars("true { false } loop") :>
        [output |-> <<>>, stack |-> <<>>, fails |-> FALSE]) @@
    (Chars("true true { 1 print } loop") :>
        [output |-> <<Integer(1), Integer(1)>>, stack |-> <<>>, fails |-> TRUE]) @@
    (Chars("true { 1 } loop 2") :>
        [output |-> <<>>, stack |-> <<>>, fails |-> TRUE]) @@
    (Chars("\"x\" { 1 } loop") :>
        [output |-> <<>>, stack |-> <<>>, fails |-> TRUE]) @@
    (Chars("{ false } loop") :>
        [output |-> <<>>, stack |-> <<>>, fails |-> TRUE])

\* A LOOP keyword is at the check of its condition.
LoopChecks == status = "execute" /\ calls # <<>> /\ Cur.looping

\* C11: LOOP pops a Block and then pops a Boolean condition again and again:
\* each true popped runs the body once more and the first false popped ends
\* the loop, so that a false at the start runs the body zero times and
\* `true { false } loop` runs it once; a missing or non-Boolean condition at
\* any check ends the run with KeywordInvalidValues(LOOP).
C11_LoopRunsBodyPerTrue ==
    /\ []((entry = "run_string" /\ source \in DOMAIN LoopPrograms) =>
            /\ status # "tokenizer_error" /\ status # "panic"
            /\ status = "ok" =>
                  /\ ~LoopPrograms[source].fails
                  /\ output = LoopPrograms[source].output
                  /\ stack = LoopPrograms[source].stack
            /\ status = "runtime_error" =>
                  /\ LoopPrograms[source].fails
                  /\ FailsWith("LOOP")
                  /\ output = LoopPrograms[source].output)
    /\ [][(IsKeyword({"LOOP"}) /\ stack # <<>> /\ Last(stack).k = "Block")
           => /\ stack' = Front(stack) /\ status' = "execute"
              /\ calls'[Len(calls)].looping
              /\ calls'[Len(calls)].function = Last(stack).body]_vars
    /\ [][LoopChecks =>
            IF stack = <<>> \/ Last(stack).k # "Boolean"
            THEN FailsAtToken("LOOP")
            ELSE /\ stack' = Front(stack) /\ status' = "execute"
                 /\ IF Last(stack).b
                    THEN /\ Len(calls') = Len(calls) + 1
                         /\ calls'[Len(calls')] = Call(Cur.function)
                         /\ calls'[Len(calls)].looping
                    ELSE /\ Len(calls') = Len(calls)
                         /\ ~calls'[Len(calls)].looping
                         /\ calls'[Len(calls)].pc = Cur.pc + 1]_vars

\* C11, its case: the loop that counts 3 down has run its body three times.
C11_Witness ==
    /\ source = Chars("3 true { dup print 1 - dup 0 > } loop") /\ status = "ok"
    /\ output = <<Integer(3), Integer(2), Integer(1)>>
    /\ stack = <<Integer(0)>>

\* Conditionals: the stack at the end, and whether GATE fails.
GatePrograms ==
    (Chars("true { 1 } gate") :> [stack |-> <<Integer(1)>>, fails |-> FALSE]) @@
    (Chars("false { 1 } gate") :> [stack |-> <<>>, fails |-> FALSE]) @@
    (Chars("true { 2 } { 1 } gate") :> [stack |-> <<Integer(1)>>, fails |-> FALSE]) @@
    (Chars("false { 2 } { 1 } gate") :> [stack |-> <<Integer(2)>>, fails |-> FALSE]) @@
    (Chars("5 true { 1 + } gate") :> [stack |-> <<Integer(6)>>, fails |-> FALSE]) @@
    (Chars("5 false { 1 + } gate") :> [stack |-> <<Integer(5)>>, fails |-> FALSE]) @@
    (Chars("5 false { 2 + } { 1 + } gate") :> [stack |-> <<Integer(7)>>, fails |-> FALSE]) @@
    (Chars("true { 1 } gate 2") :> [stack |-> <<Integer(1), Integer(2)>>, fails |-> FALSE]) @@
    (Chars("1 { 1 } gate") :> [stack |-> <<>>, fails |-> TRUE]) @@
    (Chars("true 1 gate") :> [stack |-> <<Boolean(TRUE)>>, fails |-> TRUE]) @@
    (Chars("{ 1 } gate") :> [stack |-> <<>>, fails |-> TRUE]) @@
    (Chars("{ 2 } { 1 } gate") :> [stack |-> <<>>, fails |-> TRUE]) @@
    (Chars("1 { 2 } { 1 } gate") :> [stack |-> <<>>, fails |-> TRUE])

\* The step calls execute on block with the stack data.
Runs(block, data) ==
    /\ status' = "execute" /\ stack' = data
    /\ Len(calls') = Len(calls) + 1
    /\ calls'[Len(calls')] = Call(block)
    /\ calls'[Len(calls)].pc = Cur.pc + 1

\* C12: GATE pops the Block on top as trueBlock.  When the value under it is
\* a Block, that is falseBlock and the value under that must be the Boolean
\* cond; otherwise the value under trueBlock must be the Boolean cond.  One
\* branch runs on the stack that is left: trueBlock when cond is true,
\* falseBlock when it is false (nothing when there is no falseBlock).  Every
\* other shape ends the run with KeywordInvalidValues(GATE).
C12_GateRunsOneBranch ==
    /\ []((entry = "run_string" /\ source \in DOMAIN GatePrograms) =>
            /\ status # "tokenizer_error" /\ status # "panic"
            /\ status = "ok" =>
                  (~GatePrograms[source].fails /\ stack = GatePrograms[source].stack)
            /\ status = "runtime_error" =>
                  /\ GatePrograms[source].fails /\ FailsWith("GATE")
                  /\ stack = GatePrograms[source].stack)
    /\ [][IsKeyword({"GATE"}) =>
            LET n == Len(stack)
                three == n >= 3 /\ stack[n].k = "Block" /\ stack[n - 1].k = "Block"
                                /\ stack[n - 2].k = "Boolean"
                two == n >= 2 /\ stack[n].k = "Block" /\ stack[n - 1].k = "Boolean"
            IN  CASE three -> Runs(IF stack[n - 2].b THEN stack[n].body
                                   ELSE stack[n - 1].body, SubSeq(stack, 1, n - 3))
                  [] two -> Runs(IF stack[n - 1].b THEN stack[n].body ELSE <<>>,
                                 SubSeq(stack, 1, n - 2))
                  [] OTHER -> FailsAtToken("GATE")]_vars

\* C12, its case: a GATE of three arguments has run its falseBlock on the
\* stack under the arguments.
C12_Witness ==
    /\ source = Chars("5 false { 2 + } { 1 + } gate") /\ status = "ok"
    /\ stack = <<Integer(7)>>

\* C13: an EXIT token ends only the token sequence it is in: the tokens after
\* it in that sequence are skipped, the stack stays as it is, the call
\* returns success and its caller goes on: a LOOP around it pops its next
\* condition, an outer sequence runs its next token.
C13_ExitEndsItsSequenceOnly ==
    /\ []((entry = "execute" /\ tokens \in DOMAIN ExitPrograms) =>
            /\ status \in {"execute", "ok"}
            /\ status = "ok" => stack = ExitPrograms[tokens])
    /\ [][IsKeyword({"EXIT"}) =>
            /\ stack' = stack /\ error' = error /\ output' = output
            /\ calls' = SubSeq(calls, 1, Len(calls) - 1)
            /\ status' = IF Len(calls) = 1 THEN "ok" ELSE "execute"]_vars

\* C13, its case: the EXIT in the body of a loop was executed, the loop ended
\* on the false under it, and the token after LOOP pushed 7.
C13_Witness ==
    /\ entry = "execute" /\ tokens \in DOMAIN ExitPrograms /\ status = "ok"
    /\ \E i \in 1..Len(tokens) : tokens[i].kind = Keyword("LOOP")
    /\ stack = <<Integer(5), Integer(7)>>

\* Texts with `exit`: the stack each leaves.
ExitSources ==
    (Chars("exit") :> <<>>) @@
    (Chars("1 exit") :> <<Integer(1)>>) @@
    (Chars("1 exit 2") :> <<Integer(1)>>) @@
    (Chars("1 exit #") :> <<Integer(1)>>) @@
    (Chars("1 exit }") :> <<Integer(1)>>) @@
    (Chars("1 exit g") :> <<Integer(1)>>) @@
    (Chars("1 exit\n2") :> <<Integer(1)>>) @@
    (Chars("{ 1 exit 2 } $ 3") :> <<Integer(1), Integer(3)>>) @@
    (Chars("{ 1 exit # } $ 3") :> <<Integer(1), Integer(3)>>) @@
    (Chars("{ { 1 exit 2 }  $ 3 } $") :> <<Integer(1), Integer(3)>>) @@
    (Chars("@f { 1 exit 2 } f $ 3") :> <<Integer(1), Integer(3)>>)

\* The tokenizer is at the identifier `exit`.
ReadsExit ==
    /\ Tokenizing /\ Len(Top.code) >= 4
    /\ SubSeq(Top.code, 1, 4) = Chars("exit")
    /\ Len(Top.code) = 4 \/ is_whitespace(Top.code[5])

\* C14: at the identifier `exit` the tokenizer returns successfully the
\* tokens it has pushed so far: it pushes no EXIT token and reads no text
\* after it.  In a block or in the body of a function this ends the tokens of
\* that body only, and the call around it goes on after the closing brace.
C14_ExitEndsTokenizing ==
    /\ [](entry = "run_string" =>
            /\ \A i \in 1..Len(lexer) : \A j \in 1..Len(lexer[i].tokens) :
                  lexer[i].tokens[j].kind # Keyword("EXIT")
            /\ \A i \in 1..Len(tokens) : tokens[i].kind # Keyword("EXIT")
            /\ source \in DOMAIN ExitSources =>
                  /\ status \in {"tokenize", "execute", "ok"}
                  /\ status = "ok" => stack = ExitSources[source])
    /\ [][ReadsExit =>
            IF Len(lexer) = 1
            THEN status' = "execute" /\ tokens' = Top.tokens /\ functions' = functions
            ELSE LET caller == lexer[Len(lexer) - 1]
                     after == lexer'[Len(lexer) - 1]
                 IN  /\ status' = "tokenize" /\ Len(lexer') = Len(lexer) - 1
                     /\ after.code = caller.code
                     /\ Top.ret = "block" =>
                           /\ after.tokens =
                                 Append(caller.tokens,
                                        Token_new(Literal(Block(Top.tokens)),
                                                  Top.p.row, Top.p.col))
                           /\ functions' = functions
                     /\ Top.ret = "def" =>
                           /\ after.tokens = caller.tokens
                           /\ functions'[Top.name] = Top.tokens]_vars

\* C14, its case: the `exit` in a block hid a '#', and the text after the
\* closing brace was tokenized and run.
C14_Witness ==
    /\ source = Chars("{ 1 exit # } $ 3") /\ status = "ok"
    /\ Len(tokens) = 3
    /\ stack = <<Integer(1), Integer(3)>>

\* The values of data under its top n.
Below(data, n) == SubSeq(data, 1, Len(data) - n)

\* The top n values of data.
TopOf(data, n) == SubSeq(data, Len(data) - n + 1, Len(data))

\* C15: ROT turns the top three values (a b c) into (b c a) and NROT turns
\* them into (c a b), and the values under them stay; NROT undoes ROT and ROT
\* undoes NROT; on fewer than three values each fails with
\* KeywordInvalidValues.
C15_RotAndNrot ==
    /\ [](Len(stack) >= 3 =>
            /\ keyword_rot(stack).ok /\ keyword_nrot(stack).ok
            /\ keyword_nrot(keyword_rot(stack).data).data = stack
            /\ keyword_rot(keyword_nrot(stack).data).data = stack)
    /\ [](entry = "run_string" /\ status = "ok" =>
            /\ source = Chars("1 2 3 rot") => stack = <<Integer(2), Integer(3), Integer(1)>>
            /\ source = Chars("1 2 3 nrot") => stack = <<Integer(3), Integer(1), Integer(2)>>
            /\ source \in {Chars("1 2 3 rot nrot"), Chars("1 2 3 nrot rot")} =>
                  stack = <<Integer(1), Integer(2), Integer(3)>>)
    /\ [][IsKeyword({"ROT", "NROT"}) =>
            IF Len(stack) < 3
            THEN FailsAtToken(Token.kind.kw)
            ELSE LET a == stack[Len(stack) - 2]
                     b == stack[Len(stack) - 1]
                     c == stack[Len(stack)]
                 IN  /\ status' = "execute"
                     /\ Below(stack', 3) = Below(stack, 3)
                     /\ TopOf(stack', 3) = IF Token.kind.kw = "ROT" THEN <<b, c, a>>
                                           ELSE <<c, a, b>>]_vars

\* C15, its case: NROT has moved the 3 of (0 1 2 3) under the 1 and left the 0.
C15_Witness ==
    /\ source = Chars("0 1 2 3 nrot") /\ status = "ok"
    /\ stack = <<Integer(0), Integer(3), Integer(1), Integer(2)>>

\* The stack holds an Integer index above I32Min on top.
HasIndex == stack # <<>> /\ Last(stack).k = "Integer" /\ Last(stack).i > I32Min

\* C16: PICK pops an Integer n and, when 1 <= n <= the depth of the stack
\* that is left, pushes a copy of the n-th value from the bottom and changes
\* nothing else; n < 1, n above that depth, an index that is no Integer and an
\* empty stack are errors.  (10 20 30) with 1 gives (10 20 30 10), and with 4
\* an error.
C16_PickFromTheBottom ==
    /\ [](entry = "run_string" =>
            /\ source = Chars("10 20 30 1 pick") =>
                  /\ status # "runtime_error"
                  /\ status = "ok" =>
                        stack = <<Integer(10), Integer(20), Integer(30), Integer(10)>>
            /\ source = Chars("10 20 30 4 pick") => status # "ok")
    /\ [][IsKeyword({"PICK"}) =>
            IF HasIndex /\ Last(stack).i >= 1 /\ Last(stack).i <= Len(stack) - 1
            THEN /\ status' = "execute"
                 /\ stack' = Append(Below(stack, 1), stack[Last(stack).i])
            ELSE IF HasIndex \/ stack = <<>> \/ Last(stack).k # "Integer"
            THEN status' = "runtime_error" /\ error'.type = "KeywordInvalidValues"
                 /\ error'.pos = Token.pos
            ELSE TRUE]_vars

\* C16, its case: PICK with the index 2 has copied the 20 of (10 20 30).
C16_Witness ==
    /\ source = Chars("10 20 30 2 pick") /\ status = "ok"
    /\ stack = <<Integer(10), Integer(20), Integer(30), Integer(20)>>

\* C17: ROLL pops an Integer n and, when 1 <= n <= the depth of the stack
\* that is left, takes the n-th value from the bottom out and pushes it on
\* top: the depth of that stack stays, the values that were over it keep
\* their order one place lower and the values under it stay; an n out of
\* that range is KeywordInvalidValues(ROLL).
C17_RollFromTheBottom ==
    /\ [](entry = "run_string" /\ status = "ok" =>
            /\ source = Chars("10 20 30 1 roll") =>
                  stack = <<Integer(20), Integer(30), Integer(10)>>
            /\ source = Chars("10 20 30 2 roll") =>
                  stack = <<Integer(10), Integer(30), Integer(20)>>
            /\ source = Chars("10 20 30 3 roll") =>
                  stack = <<Integer(10), Integer(20), Integer(30)>>)
    /\ [][(IsKeyword({"ROLL"}) /\ HasIndex) =>
            LET n == Last(stack).i
                depth == Len(stack) - 1
            IN  IF n >= 1 /\ n <= depth
                THEN /\ status' = "execute"
                     /\ Len(stack') = depth
                     /\ stack'[depth] = stack[n]
                     /\ \A k \in 1..(n - 1) : stack'[k] = stack[k]
                     /\ \A k \in (n + 1)..depth : stack'[k - 1] = stack[k]
                ELSE FailsAtToken("ROLL")]_vars

\* C17, its case: ROLL with the index 1 has moved the 10 of (10 20 30) to the top.
C17_Witness ==
    /\ source = Chars("10 20 30 1 roll") /\ status = "ok"
    /\ stack = <<Integer(20), Integer(30), Integer(10)>>

\* The values each keyword with operands needs on the stack.
Required ==
    ("DUPLICATE" :> 1) @@ ("DROP" :> 1) @@ ("SWAP" :> 2) @@ ("ROT" :> 3) @@
    ("NROT" :> 3) @@ ("OVER" :> 2) @@ ("TUCK" :> 2) @@ ("PICK" :> 1) @@ ("ROLL" :> 1) @@
    ("GATE" :> 2) @@ ("LOOP" :> 1) @@ ("TYPE" :> 1)

\* C18: every keyword that takes operands (DUPLICATE, DROP, SWAP, ROT, NROT,
\* OVER, TUCK, PICK, ROLL, GATE, LOOP, TYPE) fails with KeywordInvalidValues
\* when the stack holds fewer values than the keyword needs; DROP needs one.
C18_UnderflowIsAnError ==
    [][(IsKeyword(DOMAIN Required) /\ Len(stack) < Required[Token.kind.kw])
       => (status' = "runtime_error" /\ error'.type = "KeywordInvalidValues")]_vars

\* The token of the step is a keyword (for a LOOP, also at the checks of its
\* condition).
AtKeyword ==
    /\ status = "execute" /\ calls # <<>> /\ Cur.pc <= Len(Cur.tokens)
    /\ Token.kind.t = "Keyword"

\* C19: a KeywordInvalidValues error carries the position of the keyword
\* token that failed and names that keyword, whatever the keyword and the
\* cause: underflow, an operand of the wrong kind, an index under 1, an index
\* beyond the stack.
C19_ErrorNamesItsKeyword ==
    [][(AtKeyword /\ status' = "runtime_error" /\ error'.type = "KeywordInvalidValues")
       => (error'.pos = Token.pos /\ error'.kw = Token.kind.kw)]_vars

\* Two values that have no order: one is a Block or a Tag, or their kinds
\* differ and are not Integer and Float.
Unordered(a, b) ==
    \/ a.k \in {"Block", "Tag", "Function"} \/ b.k \in {"Block", "Tag", "Function"}
    \/ a.k # b.k /\ {a.k, b.k} # {"Integer", "Float"}

\* C20: Lesser, Greater, LesserEqual and GreaterEqual on two values that
\* have no order fail with OperatorInvalidValues and push no Boolean.
C20_UnorderedPairIsAnError ==
    [][(/\ IsOp({"Lesser", "Greater", "LesserEqual", "GreaterEqual"})
        /\ Len(stack) >= 2
        /\ Unordered(stack[Len(stack) - 1], stack[Len(stack)]))
       => (status' = "runtime_error" /\ error'.type = "OperatorInvalidValues")]_vars

\* The operand written first and the operand written second of a binary
\* operator: the value under the top of the stack, and the top.
Written1 == stack[Len(stack) - 1]

Written2 == stack[Len(stack)]

ArithmeticOperations == {"Add", "Subtract", "Multiply", "Divide"}

\* C21: Multiply with a String written first and an Integer written second
\* repeats the string that many times: `"ab" 3 *` pushes "ababab".
C21_StringTimesInteger ==
    [][(/\ IsOp({"Multiply"}) /\ Len(stack) >= 2
        /\ Written1.k = "String" /\ Written2.k = "Integer" /\ Written2.i >= 0)
       => (/\ status' = "execute"
           /\ stack' = push(Front(Front(stack)), String(repeat(Written1.s, Written2.i))))]_vars

\* The operand kinds an arithmetic operator accepts: two numbers, two
\* Strings for Add, a String and an Integer for Multiply.
Accepted(op, a, b) ==
    \/ {a.k, b.k} \subseteq {"Integer", "Float"}
    \/ op = "Add" /\ a.k = "String" /\ b.k = "String"
    \/ op = "Multiply" /\ {a.k, b.k} = {"String", "Integer"}

\* C22: Add, Subtract, Multiply and Divide on a pair of operands of any other
\* kinds, a String divided by an Integer among them, fail with
\* OperatorInvalidValues and push nothing.
C22_OtherKindsAreInvalid ==
    [][(/\ IsOp(ArithmeticOperations) /\ Len(stack) >= 2
        /\ ~Accepted(Token.kind.op, Written1, Written2))
       => (/\ status' = "runtime_error"
           /\ error' = OperatorInvalidValues(Token.pos, BinaryOperations[Token.kind.op])
           /\ stack' = Front(Front(stack)))]_vars

\* C23: execute never ends abnormally on Add, Subtract, Multiply, Divide,
\* PICK and ROLL, whatever Integers and Strings are their operands: the step
\* goes on or returns a RuntimeError.
C23_ArithmeticNeverPanics ==
    [][(IsOp(ArithmeticOperations) \/ IsKeyword({"PICK", "ROLL"}))
       => status' \in {"execute", "runtime_error"}]_vars

\* C24: once a RuntimeError is raised, in a block that `$`, a GATE or a LOOP
\* runs at any depth, every enclosing call returns that same error: no token
\* is executed after it, no LOOP iteration is started, the stack and the
\* output stay as they were, until the top-level call has returned it.
C24_FirstErrorEndsTheRun ==
    [][status = "runtime_error"
       => (/\ status' = "runtime_error" /\ error' = error
           /\ stack' = stack /\ output' = output
           /\ calls # <<>> /\ calls' = Front(calls))]_vars

\* An error raised two loops deep, each with a condition still to pop and
\* tokens after it.
C24_Witness ==
    /\ status = "runtime_error" /\ error.type = "KeywordInvalidValues"
    /\ Len(calls) = 2 /\ calls[1].looping /\ calls[2].looping
    /\ calls[1].pc <= Len(calls[1].tokens) /\ calls[2].pc <= Len(calls[2].tokens)

\* The names of the Function literals of toks, at any depth of its blocks.
RECURSIVE FunctionNames(_)
FunctionNames(toks) ==
    UNION {LET kind == toks[i].kind IN
           IF kind.t # "Literal" THEN {}
           ELSE IF kind.lit.k = "Function" THEN {kind.lit.fn}
           ELSE IF kind.lit.k = "Block" THEN FunctionNames(kind.lit.body)
           ELSE {} : i \in 1..Len(toks)}

\* Every Function literal of toks and of the bodies of the table names a key
\* of the table.
AllDeclared(toks) ==
    /\ FunctionNames(toks) \subseteq DOMAIN functions
    /\ \A name \in DOMAIN functions : FunctionNames(functions[name]) \subseteq DOMAIN functions

\* The tokenizer is at an identifier, read to its end, that is no keyword and
\* no key of the table.
ReadsUndeclared ==
    /\ Tokenizing /\ (is_ascii_alphabetic(Character) \/ Character = "_")
    /\ LET r == ident_loop(<<Character>>, Top.position, Unread) IN
       r.err = NoError /\ r.ident \notin DOMAIN KEYWORDS /\ r.ident \notin DOMAIN functions

\* C25: every Function literal the tokenizer emits, at any depth, names a
\* key of the function table, while it tokenizes and when it has returned,
\* so that execute's lookup of a Function literal never misses; an
\* identifier that is no keyword and not yet declared where it is read fails
\* with UnknownIdentifier at its first character.
C25_FunctionLiteralsAreDeclared ==
    /\ [](entry = "run_string" =>
            /\ \A i \in 1..Len(lexer) : AllDeclared(lexer[i].tokens)
            /\ AllDeclared(tokens))
    /\ [][(entry = "run_string" /\ Executing /\ Token.kind.t = "Literal")
          => status' = "execute"]_vars
    /\ [][ReadsUndeclared
          => (/\ status' = "tokenizer_error"
              /\ error' = UnknownIdentifier(Top.position,
                             ident_loop(<<Character>>, Top.position, Unread).ident))]_vars

\* A run that ended well whose tokens hold, inside a block, a function whose
\* body holds a function in turn.
C25_Witness ==
    /\ entry = "run_string" /\ status = "ok"
    /\ \E i \in 1..Len(tokens) :
          /\ tokens[i].kind.t = "Literal" /\ tokens[i].kind.lit.k = "Block"
          /\ \E name \in FunctionNames(tokens[i].kind.lit.body) :
                FunctionNames(functions[name]) # {}

\* The tokenizer is at a '@' whose name, read to its end, is a key of the
\* table.
DeclaresAgain ==
    /\ Tokenizing /\ Character = "@"
    /\ LET r == name_loop(<<>>, ColPlus(Top.position, 1), Unread) IN
       r.err = NoError /\ r.function_name \in DOMAIN functions

\* C26: a '@' that declares a name the function table holds already, bare
\* or with a body, beside or inside the earlier declaration, fails with
\* FunctionHasMultipleDefinitions at the first character of the name; over a
\* whole run keys are only added to the table, and a body that is not empty
\* is never changed.
C26_OneDefinitionPerName ==
    /\ [][DeclaresAgain
          => (/\ status' = "tokenizer_error"
              /\ error' = FunctionHasMultipleDefinitions(
                             ColPlus(Top.position, 1),
                             name_loop(<<>>, ColPlus(Top.position, 1), Unread).function_name))]_vars
    /\ [][/\ DOMAIN functions \subseteq DOMAIN functions'
          /\ \A name \in DOMAIN functions :
                functions[name] # <<>> => functions'[name] = functions[name]]_vars

\* Two functions with bodies in the table, and a second declaration of one
\* of them refused inside the body of a third.
C26_Witness ==
    /\ status = "tokenizer_error" /\ error.type = "FunctionHasMultipleDefinitions"
    /\ functions[error.name] # <<>>
    /\ \E name \in DOMAIN functions : name # error.name /\ functions[name] = <<>>

\* A value without a Float and without a Function, at any depth.
RECURSIVE Plain(_)
Plain(v) ==
    /\ v.k \notin {"Float", "Function"}
    /\ v.k = "Block" =>
          \A i \in 1..Len(v.body) :
              v.body[i].kind.t = "Literal" => Plain(v.body[i].kind.lit)

\* C27: for a value built from Integer, Boolean, String, Tag and Block,
\* from_bytes of its encoding, alone or followed by other bytes, returns a
\* value identical to it, tokens and positions included, and a length read
\* equal to the length of the encoding.
C27_RoundTrip ==
    (status = "decoded" /\ Plain(value) /\ Len(buffer) >= Len(Value_to_bytes(value)))
    => decoded = Decoded(value, Len(Value_to_bytes(value)))

\* A block holding a block, decoded from a buffer with bytes after the encoding.
C27_Witness ==
    /\ status = "decoded" /\ Plain(value) /\ Len(buffer) > Len(Value_to_bytes(value))
    /\ decoded.ok /\ decoded.val.k = "Block"
    /\ \E i \in 1..Len(decoded.val.body) :
          /\ decoded.val.body[i].kind.t = "Literal"
          /\ decoded.val.body[i].kind.lit.k = "Block"
          /\ decoded.val.body[i].kind.lit.body # <<>>

\* C28: from_bytes of a strict prefix of the encoding of a value, the empty
\* buffer included, fails with EndOfFile.
C28_PrefixIsEndOfFile ==
    (status = "decoded" /\ Len(buffer) < Len(Value_to_bytes(value)))
    => decoded = NotDecoded(EndOfFile)

\* A buffer that ends inside the text of a String inside a block.
C28_Witness ==
    /\ status = "decoded" /\ decoded = NotDecoded(EndOfFile)
    /\ value.k = "Block" /\ Len(value.body) = 1
    /\ value.body[1].kind = Literal(String(Chars("ab")))
    /\ Len(buffer) = Len(Value_to_bytes(value)) - 9

\* The number of '{' less the number of '}' in the first i characters of text.
RECURSIVE Depth(_, _)
Depth(text, i) ==
    IF i = 0 THEN 0
    ELSE Depth(text, i - 1) + (IF text[i] = "{" THEN 1 ELSE IF text[i] = "}" THEN -1 ELSE 0)

\* C29: a text whose block is still open where the text ends, or that has a
\* '}' where no block is open, fails with BlockHadNoEnd: tokenize goes on
\* until it fails, returns no tokens, and nothing is executed.
C29_UnclosedBlockIsAnError ==
    source \in UnclosedSources =>
        /\ status \in {"tokenize", "tokenizer_error"}
        /\ tokens = <<>> /\ calls = <<>> /\ output = <<>>
        /\ status = "tokenize" => ENABLED tokenize
        /\ status = "tokenizer_error" => error.type = "BlockHadNoEnd"

\* The definition of a function that the text ends in has failed.
C29_Witness ==
    /\ source = Chars("@f { 1 } f $ @g { f")
    /\ Depth(source, Len(source)) > 0
    /\ status = "tokenizer_error" /\ error.type = "BlockHadNoEnd"

\* The index in text of the second '.' of the first numeral that has two.
SecondDot(text) ==
    LET second(i) ==
            /\ text[i] = "."
            /\ \E j \in 1..(i - 1) :
                  /\ text[j] = "."
                  /\ \A k \in (j + 1)..(i - 1) : is_ascii_digit(text[k])
    IN  CHOOSE i \in 1..Len(text) : second(i) /\ \A h \in 1..(i - 1) : ~second(h)

\* The row and the column of the character of index i of text, from 1.
PositionAt(text, i) ==
    LET newlines == {h \in 1..(i - 1) : text[h] = "\n"}
        last == IF newlines = {} THEN 0
                ELSE CHOOSE h \in newlines : \A g \in newlines : g <= h
    IN  TokenPosition(Cardinality(newlines) + 1, i - last)

\* C30: a numeral with a second '.' fails with InvalidNumberFormat at the row
\* and column of that '.', wherever on the line the numeral starts.
C30_SecondDotPosition ==
    (status = "tokenizer_error" /\ source \in NumeralSources)
    => error = InvalidNumberFormat(PositionAt(source, SecondDot(source)))

\* run_string tokenized `a b + print`, for Integers a and b whose sum is an i32.
IsPrintedSum ==
    /\ entry = "run_string" /\ Len(tokens) = 4
    /\ \A i \in {1, 2} : tokens[i].kind.t = "Literal" /\ tokens[i].kind.lit.k = "Integer"
    /\ tokens[3].kind = Op("Add") /\ tokens[4].kind = Keyword("PRINT")
    /\ i32_add(tokens[1].kind.lit.i, tokens[2].kind.lit.i).r = "Some"

\* The stack of `a b + print` before the token of index pc is executed.
PrintedSumStack(pc) ==
    LET a == tokens[1].kind.lit
        b == tokens[2].kind.lit
    IN  CASE pc = 1 -> <<>>
          [] pc = 2 -> <<a>>
          [] pc = 3 -> <<a, b>>
          [] pc = 4 -> <<Integer(a.i + b.i)>>
          [] OTHER -> <<>>

\* C31: `a b + print` pushes a, pushes b, replaces them by the Integer a+b,
\* and PRINT writes that value and removes it: the run succeeds with an empty
\* stack.  PRINT on an empty stack is no error and leaves the stack empty.
C31_SumIsPrinted ==
    /\ [](IsPrintedSum =>
            /\ status \in {"execute", "ok"}
            /\ (status = "execute" /\ calls # <<>>) => stack = PrintedSumStack(Cur.pc)
            /\ status = "ok" =>
                  /\ stack = <<>>
                  /\ output = <<Integer(tokens[1].kind.lit.i + tokens[2].kind.lit.i)>>)
    /\ [][(IsKeyword({"PRINT"}) /\ stack = <<>>)
          => (stack' = <<>> /\ status' = "execute" /\ error' = NoError
              /\ calls' = [calls EXCEPT ![Len(calls)].pc = @ + 1])]_vars

\* `12 -3 + print` has written 9 and ended with an empty stack.
C31_Witness ==
    /\ IsPrintedSum /\ status = "ok" /\ stack = <<>>
    /\ source = Chars("12 -3 + print") /\ output = <<Integer(9)>>

\* PRINT was executed on an empty stack and the run succeeded.
C31_WitnessEmpty ==
    /\ source = Chars("print print 1") /\ status = "ok" /\ stack = <<Integer(1)>>
    /\ Len(output) = 2

\* The 1-based row and column of the one-digit numeral v in the source text.
NumeralPosition(v) ==
    PositionAt(source, CHOOSE h \in 1..Len(source) : source[h] = DigitChars[v + 1])

\* Every Integer token of toks, at any depth, is where its numeral is written.
RECURSIVE WhereWritten(_)
WhereWritten(toks) ==
    \A i \in 1..Len(toks) :
        LET token == toks[i] IN
        token.kind.t = "Literal" =>
            /\ token.kind.lit.k = "Integer" => token.pos = NumeralPosition(token.kind.lit.i)
            /\ token.kind.lit.k = "Block" => WhereWritten(token.kind.lit.body)

\* C32: a token inside a block or a function body carries the row and the
\* column of its first character in the source text, whether a space or a
\* newline follows the '{'.
C32_BlockTokenPositions ==
    (source \in BlockSources /\ status \in {"execute", "ok"}) =>
        /\ WhereWritten(tokens)
        /\ \A name \in DOMAIN functions : WhereWritten(functions[name])

\* toks is body, or the body of a block at some depth of body.
RECURSIVE InBody(_, _)
InBody(toks, body) ==
    \/ toks = body
    \/ \E i \in 1..Len(body) :
          /\ body[i].kind.t = "Literal" /\ body[i].kind.lit.k = "Block"
          /\ InBody(toks, body[i].kind.lit.body)

\* The token to execute is a reference to a function, inside that function's
\* own body.
AtSelfReference ==
    /\ Executing /\ Token.kind.t = "Literal" /\ Token.kind.lit.k = "Function"
    /\ contains_key(functions, Token.kind.lit.fn)
    /\ InBody(Cur.tokens, functions[Token.kind.lit.fn])

\* C33: a reference to f inside the body of f tokenizes without error, and
\* when it is executed it pushes the populated body of f as a Block, never
\* Tag("f"), so that the body can be run again.
C33_SelfReferenceIsTheBody ==
    /\ [](source \in SelfSources =>
            status \notin {"tokenizer_error", "runtime_error", "panic"})
    /\ [][AtSelfReference
          => (/\ status' = "execute"
              /\ functions[Token.kind.lit.fn] # <<>>
              /\ stack' = push(stack, Block(functions[Token.kind.lit.fn])))]_vars

\* The reference to f in the body of f has pushed that body.
C33_Witness ==
    /\ source = Chars("@f { 1 f }  f $ $") /\ status = "ok"
    /\ stack = <<Integer(1), Integer(1), Block(functions[Chars("f")])>>
    /\ \E i \in 1..Len(functions[Chars("f")]) :
          functions[Chars("f")][i].kind = Literal(Function(Chars("f")))

\* What the claim has a keyword make of a stack that ends with a and b.
Shuffled(kw, data) ==
    LET below == Front(Front(data))
        a == Last(Front(data))
        b == Last(data)
    IN  CASE kw = "SWAP" -> below \o <<b, a>>
          [] kw = "OVER" -> below \o <<a, b, a>>
          [] kw = "TUCK" -> below \o <<b, a, b>>
          [] kw = "DUPLICATE" -> Front(data) \o <<b, b>>

\* The values a keyword needs on the stack.
ShuffleDepth(kw) ==
    CASE kw = "DUPLICATE" -> 1
      [] kw \in {"SWAP", "OVER", "TUCK"} -> 2
      [] kw \in {"ROT", "NROT"} -> 3

\* C34: SWAP maps (a b) to (b a), OVER (a b) to (a b a), TUCK (a b) to
\* (b a b) and DUPLICATE (a) to (a a), the values below untouched; SWAP, OVER,
\* TUCK, ROT and NROT that fail for lack of depth leave the stack as it was.
C34_StackShuffles ==
    [][/\ (IsKeyword({"SWAP", "OVER", "TUCK", "DUPLICATE"})
            /\ Len(stack) >= ShuffleDepth(Token.kind.kw))
          => (status' = "execute" /\ stack' = Shuffled(Token.kind.kw, stack))
       /\ (IsKeyword({"SWAP", "OVER", "TUCK", "ROT", "NROT"})
            /\ Len(stack) < ShuffleDepth(Token.kind.kw))
          => (status' = "runtime_error" /\ stack' = stack)]_vars

\* What the claim has Equal push for a and b.
ClaimedEqual(a, b) ==
    IF a.k = b.k /\ a.k \in {"Integer", "Boolean", "String", "Tag", "Block"} THEN a = b
    ELSE IF a.k # b.k /\ {a.k, b.k} # {"Integer", "Float"} THEN FALSE
    ELSE eq(a, b)

\* C35: with two values on the stack Equal and NotEqual push a Boolean and
\* never fail, NotEqual the negation of Equal; Equal of two Integers,
\* Booleans, Strings, Tags or Blocks is true iff they are equal, and false
\* for two kinds other than Integer and Float; with fewer than two values
\* they fail.
C35_EqualityOfKinds ==
    [][IsOp({"Equal", "NotEqual"}) =>
         IF Len(stack) >= 2
         THEN /\ status' = "execute"
              /\ stack' = push(Front(Front(stack)),
                               Boolean(ClaimedEqual(Written2, Written1)
                                       = (Token.kind.op = "Equal")))
         ELSE status' = "runtime_error" /\ error'.type = "OperatorInvalidValues"]_vars

\* The operands of `a b op` are on the stack and `a b =` pushes true.
AtEqualOperands(ops) ==
    IsOp(ops) /\ Len(stack) >= 2 /\ eq(Written2, Written1)

\* C37: when `a b =` pushes true, `a b <=` and `a b >=` push true and
\* `a b <` and `a b >` push false.
C37_EqualityAndOrderAgree ==
    [][/\ AtEqualOperands({"LesserEqual", "GreaterEqual"})
          => (status' = "execute"
              /\ stack' = push(Front(Front(stack)), Boolean(TRUE)))
       /\ AtEqualOperands({"Lesser", "Greater"})
          => (status' = "execute"
              /\ stack' = push(Front(Front(stack)), Boolean(FALSE)))]_vars

RECURSIVE Uses(_, _)
Uses(toks, kws) ==
    \E i \in 1..Len(toks) :
        LET kind == toks[i].kind IN
        \/ kind.t = "Keyword" /\ kind.kw \in kws
        \/ kind.t = "Literal" /\ kind.lit.k = "Function"
        \/ kind.t = "Literal" /\ kind.lit.k = "Block" /\ Uses(kind.lit.body, kws)

\* execute has been called on tokens and a stack that holds no Block.
Started ==
    /\ status = "execute" /\ Len(calls) = 1 /\ Cur.pc = 1 /\ ~Cur.looping
    /\ \A i \in 1..Len(stack) : stack[i].k # "Block"

\* execute has returned, or has panicked in an operation.
Ended == status \in {"ok", "runtime_error", "panic"}

C39_DeclaredFunctionIsABlock ==
    source \in BodySources =>
        /\ \A i \in 1..Len(stack) : stack[i].k # "Tag"
        /\ ~(status = "runtime_error" /\ error.type = "OperatorInvalidValues")

\* C40 as stated: compiling the same source twice writes the same bytes to
\* the library file, also when the source declares two or more names.
C40_CompilationIsDeterministic ==
    Len(library) >= 2 => library[1] = library[2]

=============================================================================
